---- MODULE Spec2Model ----
(***************************************************************************)
(* Verification model of go-fox/sugar.                                     *)
(*                                                                         *)
(*  - util/scopier: the reflection based deep-clone engine, modelled as a  *)
(*    small-step machine over an explicit heap (one step per call of, or   *)
(*    return into, clone / cloneSlice / cloneMap / clonePtr / cloneStruct).*)
(*  - satomic / spool Value[T]: the wrapper around atomic.Value.           *)
(***************************************************************************)
EXTENDS Integers, Sequences, FiniteSets, TLC

(* ----------------------------------------------------------------------- *)
(* Bounds                                                                  *)
(* ----------------------------------------------------------------------- *)
\* number of concurrent callers of the clone entry points
NumCallers == 2
\* goroutine stack budget, counted in frames of the clone engine
MaxDepth == 6
\* number of goroutines working on one satomic.Value
NumThreads == 3

Procs == 1..NumCallers

(* ----------------------------------------------------------------------- *)
(* Go types (the part of the reflect type system the engine looks at)      *)
(* ----------------------------------------------------------------------- *)
Fld(n, t, e) == [name |-> n, t |-> t, exp |-> e]

Ty(k, el, ky, n, fs, u, nm) ==
    [kind |-> k, elem |-> el, key |-> ky, n |-> n, fields |-> fs,
     under |-> u, named |-> nm]

Basic(k, name)      == Ty(k, "", "", 0, <<>>, name, TRUE)
Defined(k, u)       == Ty(k, "", "", 0, <<>>, u, TRUE)
SliceTy(name, el)   == Ty("Slice", el, "", 0, <<>>, name, FALSE)
ArrayTy(name, el, n) == Ty("Array", el, "", n, <<>>, name, FALSE)
MapTy(name, ky, el) == Ty("Map", el, ky, 0, <<>>, name, FALSE)
PtrTy(name, el)     == Ty("Ptr", el, "", 0, <<>>, name, FALSE)
StructTy(name, fs)  == Ty("Struct", "", "", 0, fs, name, TRUE)

TypeInfo ==
       ("bool"   :> Basic("Bool", "bool"))
    @@ ("int"    :> Basic("Int", "int"))
    @@ ("int8"   :> Basic("Int8", "int8"))
    @@ ("int16"  :> Basic("Int16", "int16"))
    @@ ("int32"  :> Basic("Int32", "int32"))
    @@ ("int64"  :> Basic("Int64", "int64"))
    @@ ("uint8"  :> Basic("Uint8", "uint8"))
    @@ ("uint16" :> Basic("Uint16", "uint16"))
    @@ ("string" :> Basic("String", "string"))
    @@ ("MyInt8" :> Defined("Int8", "int8"))
    @@ ("any"      :> Ty("Interface", "", "", 0, <<>>, "any", FALSE))
    @@ ("func()"   :> Ty("Func", "", "", 0, <<>>, "func()", FALSE))
    @@ ("chan int" :> Ty("Chan", "int", "", 0, <<>>, "chan int", FALSE))
    @@ ("[]int"    :> SliceTy("[]int", "int"))
    @@ ("[]any"    :> SliceTy("[]any", "any"))
    @@ ("[]*int"   :> SliceTy("[]*int", "*int"))
    @@ ("[]*[]int" :> SliceTy("[]*[]int", "*[]int"))
    @@ ("[]*Node"  :> SliceTy("[]*Node", "*Node"))
    @@ ("[]*map[string]int32" :> SliceTy("[]*map[string]int32", "*map[string]int32"))
    @@ ("[2]int"   :> ArrayTy("[2]int", "int", 2))
    @@ ("map[string]int32" :> MapTy("map[string]int32", "string", "int32"))
    @@ ("map[string]*int"  :> MapTy("map[string]*int", "string", "*int"))
    @@ ("map[string]any"   :> MapTy("map[string]any", "string", "any"))
    @@ ("map[any]int"      :> MapTy("map[any]int", "any", "int"))
    @@ ("*int"     :> PtrTy("*int", "int"))
    @@ ("*int8"    :> PtrTy("*int8", "int8"))
    @@ ("*MyInt8"  :> PtrTy("*MyInt8", "MyInt8"))
    @@ ("*any"     :> PtrTy("*any", "any"))
    @@ ("*[]int"   :> PtrTy("*[]int", "[]int"))
    @@ ("*map[string]int32" :> PtrTy("*map[string]int32", "map[string]int32"))
    @@ ("*Node"    :> PtrTy("*Node", "Node"))
    @@ ("**Node"   :> PtrTy("**Node", "*Node"))
    @@ ("*Rec"     :> PtrTy("*Rec", "Rec"))
    @@ ("*Holder"  :> PtrTy("*Holder", "Holder"))
    @@ ("*Boxes"   :> PtrTy("*Boxes", "Boxes"))
    @@ ("Node"   :> StructTy("Node", <<Fld("Name", "string", TRUE),
                                        Fld("Next", "*Node", TRUE)>>))
    @@ ("Rec"    :> StructTy("Rec", <<Fld("Pub", "int", TRUE),
                                      Fld("priv", "int", FALSE),
                                      Fld("F", "func()", TRUE),
                                      Fld("C", "chan int", TRUE),
                                      Fld("P", "*int", TRUE)>>))
    @@ ("Holder" :> StructTy("Holder", <<Fld("Arr", "[2]int", TRUE)>>))
    @@ ("Boxes"  :> StructTy("Boxes", <<Fld("M", "MyInt8", TRUE),
                                        Fld("A", "any", TRUE)>>))
    @@ ("map[string]int64" :> MapTy("map[string]int64", "string", "int64"))
    @@ ("[]Node"  :> SliceTy("[]Node", "Node"))
    @@ ("*string" :> PtrTy("*string", "string"))
    @@ ("*[]any"  :> PtrTy("*[]any", "[]any"))
    @@ ("*map[string]any" :> PtrTy("*map[string]any", "map[string]any"))
    @@ ("*PS"     :> PtrTy("*PS", "PS"))
    @@ ("*SP"     :> PtrTy("*SP", "SP"))
    @@ ("*Wrap"   :> PtrTy("*Wrap", "Wrap"))
    @@ ("*Both"   :> PtrTy("*Both", "Both"))
    @@ ("PS"     :> StructTy("PS", <<Fld("P", "*Node", TRUE),
                                    Fld("S", "[]Node", TRUE)>>))
    @@ ("SP"     :> StructTy("SP", <<Fld("S", "[]Node", TRUE),
                                    Fld("P", "*Node", TRUE)>>))
    @@ ("Wrap"   :> StructTy("Wrap", <<Fld("Inner", "Node", TRUE),
                                        Fld("P", "*Node", TRUE)>>))
    @@ ("Both"   :> StructTy("Both", <<Fld("N", "*Node", TRUE),
                                        Fld("S", "*string", TRUE)>>))
    @@ ("[]MyInt8" :> SliceTy("[]MyInt8", "MyInt8"))
    @@ ("[]func()" :> SliceTy("[]func()", "func()"))
    @@ ("map[string]func()" :> MapTy("map[string]func()", "string", "func()"))
    @@ ("map[MyInt8]*int" :> MapTy("map[MyInt8]*int", "MyInt8", "*int"))
    @@ ("*Mixed"  :> PtrTy("*Mixed", "Mixed"))
    @@ ("Mixed"  :> StructTy("Mixed", <<Fld("Pub", "[]int", TRUE),
                                        Fld("priv", "*int", FALSE),
                                        Fld("hid", "[]int", FALSE),
                                        Fld("F", "func()", TRUE),
                                        Fld("A", "any", TRUE)>>))

TypeNames == DOMAIN TypeInfo

Kind(t) == TypeInfo[t].kind

\* reflect.PtrTo / the type reflect.New(t) returns
PtrTo(t) == "*" \o t

IntKinds  == {"Int", "Int8", "Int16", "Int32", "Int64"}
UintKinds == {"Uint", "Uint8", "Uint16", "Uint32", "Uint64"}
ScalarKinds == {"Bool", "String"} \cup IntKinds \cup UintKinds

(* ----------------------------------------------------------------------- *)
(* Go values and the heap                                                  *)
(*   a value is [t |-> declared type, x |-> payload]                       *)
(*     scalar: x = the number / string / boolean                           *)
(*     Ptr:    x = <<>> (nil) or <<address>>                               *)
(*     Slice:  x = <<>> (nil) or <<[obj |-> backing array, len |-> n]>>    *)
(*     Map:    x = <<>> (nil) or <<object id>>                             *)
(*     Func, Chan: x = <<>> (nil) or <<identity>>                          *)
(*     Interface:  x = <<>> (nil) or <<dynamic value>>                     *)
(*     Struct, Array: x = the sequence of fields / elements (by value)     *)
(*   an object id is [own |-> 0 for the source graph, p for storage        *)
(*   allocated by caller p; n |-> serial]; an address is an object and a   *)
(*   path of field / element indexes into it.                              *)
(* ----------------------------------------------------------------------- *)
Obj(o, n)  == [own |-> o, n |-> n]
Src(n)     == Obj(0, n)
At(o, p)   == [obj |-> o, path |-> p]
NoAddr     == At(Obj(0, 0), <<>>)

V(t, x)    == [t |-> t, x |-> x]
Nil(t)     == V(t, <<>>)
PtrV(t, a) == V(t, <<a>>)
SliceV(t, o, n) == V(t, <<[obj |-> o, len |-> n]>>)
MapV(t, o) == V(t, <<o>>)
Box(v)     == V("any", <<v>>)
\* the objects behind a slice (its backing array) and behind a map
Backing(elems) == V("backing", elems)
HMap(entries)  == V("hmap", entries)

RECURSIVE ZeroVal(_)
\* the zero value of a type (reflect.Zero, and what reflect.New / MakeSlice fill in)
ZeroVal(t) ==
    LET k == Kind(t) IN
    CASE k \in IntKinds \cup UintKinds -> V(t, 0)
      [] k = "Bool"   -> V(t, FALSE)
      [] k = "String" -> V(t, "")
      [] k = "Struct" -> V(t, [i \in 1..Len(TypeInfo[t].fields) |->
                                  ZeroVal(TypeInfo[t].fields[i].t)])
      [] k = "Array"  -> V(t, [i \in 1..TypeInfo[t].n |-> ZeroVal(TypeInfo[t].elem)])
      [] OTHER        -> Nil(t)

RECURSIVE Sub(_, _)
\* the part of a by-value tree a path of field / element indexes selects
Sub(v, path) == IF path = <<>> THEN v ELSE Sub(v.x[Head(path)], Tail(path))

RECURSIVE Upd(_, _, _)
Upd(v, path, new) ==
    IF path = <<>> THEN new
    ELSE [v EXCEPT !.x = [@ EXCEPT ![Head(path)] = Upd(@, Tail(path), new)]]

ReadAt(h, a)       == Sub(h[a.obj], a.path)
WriteAt(h, a, new) == [h EXCEPT ![a.obj] = Upd(@, a.path, new)]

\* the id of the next object caller p allocates
Fresh(h, p) == Obj(p, Cardinality({o \in DOMAIN h : o.own = p}) + 1)
Alloc(h, p, v) == [o \in DOMAIN h \cup {Fresh(h, p)} |->
                      IF o = Fresh(h, p) THEN v ELSE h[o]]

RECURSIVE SizeOf(_)
\* words a value of type t occupies (gives two fields distinct addresses and
\* a struct the address of its first field)
SizeOf(t) ==
    LET k == Kind(t) IN
    CASE k = "Struct" ->
           LET fs == TypeInfo[t].fields
               RECURSIVE Sum(_)
               Sum(i) == IF i = 0 THEN 0 ELSE SizeOf(fs[i].t) + Sum(i - 1)
           IN Sum(Len(fs))
      [] k = "Array"  -> TypeInfo[t].n * SizeOf(TypeInfo[t].elem)
      [] k = "String" -> 2
      [] k = "Interface" -> 2
      [] k = "Slice"  -> 3
      [] OTHER        -> 1

RECURSIVE OffsetIn(_, _)
\* byte offset (in words) of the location a path selects inside a value
OffsetIn(v, path) ==
    IF path = <<>> THEN 0
    ELSE LET i == Head(path)
             RECURSIVE Before(_)
             Before(j) == IF j = 0 THEN 0 ELSE SizeOf(v.x[j].t) + Before(j - 1)
         IN Before(i - 1) + OffsetIn(v.x[i], Tail(path))

\* v.UnsafeAddr(): the numeric address of an addressable value
UnsafeAddr(h, a) == [obj |-> a.obj, off |-> OffsetIn(h[a.obj], a.path)]

(* ----------------------------------------------------------------------- *)
(* reflect.Value                                                           *)
(*   valid   - false for the zero Value (Kind() == Invalid)                *)
(*   t       - Type()                                                      *)
(*   canAddr - CanAddr(); an addressable Value reads through addr          *)
(* ----------------------------------------------------------------------- *)
InvalidRV == [valid |-> FALSE, t |-> "", val |-> V("", 0),
              canAddr |-> FALSE, addr |-> NoAddr]

\* a Value holding a copy (not addressable)
Temp(v) == [valid |-> TRUE, t |-> v.t, val |-> v, canAddr |-> FALSE, addr |-> NoAddr]

\* a Value standing for the storage at address a
Place(h, a) == [valid |-> TRUE, t |-> ReadAt(h, a).t, val |-> ReadAt(h, a),
                canAddr |-> TRUE, addr |-> a]

\* reflect.ValueOf(src): src arrives boxed in an interface; nil gives the zero Value
ValueOf(boxed) == IF boxed.x = <<>> THEN InvalidRV ELSE Temp(boxed.x[1])

KindOf(rv) == IF rv.valid THEN Kind(rv.t) ELSE "Invalid"

Val(h, rv) == IF rv.canAddr THEN ReadAt(h, rv.addr) ELSE rv.val

\* reflect.Value.IsNil panics unless the kind is one of these
IsNilKinds == {"Chan", "Func", "Interface", "Map", "Ptr", "Slice", "UnsafePointer"}

IsNil(h, rv) == Val(h, rv).x = <<>>

\* v.Elem() of a pointer (addressable pointee) or of an interface (a copy)
Elem(h, rv) ==
    IF Kind(rv.t) = "Ptr" THEN Place(h, Val(h, rv).x[1])
    ELSE IF Val(h, rv).x = <<>> THEN InvalidRV
    ELSE Temp(Val(h, rv).x[1])

\* v.Index(i) of a slice, i counted from 1: always addressable
Index(h, rv, i) == Place(h, At(Val(h, rv).x[1].obj, <<i>>))

SliceLen(h, rv) == Val(h, rv).x[1].len

\* v.Field(i), i counted from 1: addressable when v is
Field(h, rv, i) ==
    IF rv.canAddr THEN Place(h, At(rv.addr.obj, Append(rv.addr.path, i)))
    ELSE Temp(rv.val.x[i])

NumField(t) == Len(TypeInfo[t].fields)

MapEntries(h, rv) == h[Val(h, rv).x[1]].x
MapKeys(h, rv)    == {e.k : e \in MapEntries(h, rv)}
MapIndex(h, rv, key) == Temp((CHOOSE e \in MapEntries(h, rv) : e.k = key).v)

\* every order in which MapKeys may hand out the keys of a set
Orders(S) ==
    {s \in [1..Cardinality(S) -> S] : \A i, j \in 1..Cardinality(S) : s[i] = s[j] => i = j}

\* two's complement truncation of the conversions int8(..), uint8(..), ...
\* (32 and 64 bit: every integer of the model is in range already)
Wrap(n, k) ==
    CASE k = "Int8"   -> ((n + 128) % 256) - 128
      [] k = "Uint8"  -> n % 256
      [] k = "Int16"  -> ((n + 32768) % 65536) - 32768
      [] k = "Uint16" -> n % 65536
      [] OTHER        -> n

\* the predeclared type a Go conversion such as int8(x) yields
BuiltinOf(k) ==
    CASE k = "Bool"   -> "bool"
      [] k = "Int"    -> "int"
      [] k = "Int8"   -> "int8"
      [] k = "Int16"  -> "int16"
      [] k = "Int32"  -> "int32"
      [] k = "Int64"  -> "int64"
      [] k = "Uint8"  -> "uint8"
      [] k = "Uint16" -> "uint16"
      [] k = "String" -> "string"

\* reflect.Value.Convert: the conversions among the types of this model
\* (identical, to an empty interface, integer to integer, identical
\*  underlying types, unnamed pointers to identical underlying base types)
Convertible(s, d) ==
    \/ s = d
    \/ Kind(d) = "Interface"
    \/ Kind(s) \in IntKinds \cup UintKinds /\ Kind(d) \in IntKinds \cup UintKinds
    \/ TypeInfo[s].under = TypeInfo[d].under
    \/ /\ Kind(s) = "Ptr" /\ Kind(d) = "Ptr"
       /\ ~TypeInfo[s].named /\ ~TypeInfo[d].named
       /\ TypeInfo[TypeInfo[s].elem].under = TypeInfo[TypeInfo[d].elem].under

ConvertVal(v, d) ==
    IF v.t = d THEN v
    ELSE IF Kind(d) = "Interface" THEN V(d, <<v>>)
    ELSE IF Kind(d) \in IntKinds \cup UintKinds THEN V(d, Wrap(v.x, Kind(d)))
    ELSE [v EXCEPT !.t = d]

\* assignability as SetMapIndex checks it (no conversion)
Assignable(s, d) == s = d \/ Kind(d) = "Interface"

\* x.(T) on the result of Interface()
AssertsTo(t, T) == Kind(T) = "Interface" \/ t = T

AsT(v, T) == IF Kind(T) = "Interface" /\ v.t # T THEN V(T, <<v>>) ELSE v

(* ----------------------------------------------------------------------- *)
(* State                                                                   *)
(* ----------------------------------------------------------------------- *)
VARIABLES
    fx,      \* which source graph the callers were handed
    heap,    \* object id -> stored value: the source graph and all clone storage
    cl,      \* caller -> control state of its clone call (mode, fn, v, stack,
             \*           why it panicked, steps taken so far)
    ptrs,    \* cloner -> visited-table c.ptrs: [t, a] -> the recorded pointer
    entry,   \* caller -> the entry point it called, T and src
    result,  \* caller -> the value its entry point returned
    cell,    \* satomic.Value: what the atomic.Value holds (<<>> before any Store)
    th,      \* goroutine -> its position in a satomic operation
    stored,  \* satomic: the values handed to Store / Swap so far
    olds,    \* satomic: value -> how many Swaps returned it as old
    gone,    \* satomic: the values a Store overwrote
    safe,    \* rwmutex.RWMutex.safe of the container the goroutines share
    mu,      \* container -> state of its sync.RWMutex (writer held, readers)
    adata,   \* sarray.Array.data of the shared array (its elements in order)
    mdata,   \* smap.Map.data: key -> value, for the keys present
    gr,      \* goroutine -> the container operation it runs and where it is
    hist,    \* smap: the calls made so far, oldest first
    got,     \* smap: what the last call returned
    store,   \* sarray: backing array id -> its cells (slices share them)
    arrs,    \* sarray: array -> [safe, slice header of its data]
    alog     \* sarray: the calls made on the two arrays since Clone

cloneVars  == <<fx, heap, cl, ptrs, entry, result>>
atomicVars == <<cell, th, stored, olds, gone>>
lockVars   == <<safe, mu, adata, gr>>
mapVars    == <<mdata, hist, got>>
arrayVars  == <<store, arrs, alog>>
containerVars == <<lockVars, mapVars, arrayVars>>
vars       == <<fx, heap, cl, ptrs, entry, result, cell, th, stored, olds, gone,
                safe, mu, adata, mdata, gr, hist, got, store, arrs, alog>>

(* ----------------------------------------------------------------------- *)
(* The clone engine: control state of one call                             *)
(*   S = [mode, fn, v, stack, why, ptrs, heap]                             *)
(*   mode "call": about to run fn on v;  "ret": the callee returned v      *)
(* ----------------------------------------------------------------------- *)
Frame(fn, v) == [fn |-> fn, v |-> v, pc |-> "", i |-> 0, obj |-> Obj(0, 0),
                 keys |-> <<>>, ck |-> InvalidRV]

Idle == [mode |-> "idle", fn |-> "", v |-> InvalidRV, stack |-> <<>>, why |-> "",
         steps |-> 0]

Call(S, f, rv) == [S EXCEPT !.mode = "call", !.fn = f, !.v = rv]
Ret(S, rv)     == [S EXCEPT !.mode = "ret", !.fn = "", !.v = rv]
Panic(S, why)  == [S EXCEPT !.mode = "panic", !.why = why]
Overflow(S)    == [S EXCEPT !.mode = "overflow"]

Top(S)        == S.stack[Len(S.stack)]
SetTop(S, fr) == [S EXCEPT !.stack = [@ EXCEPT ![Len(S.stack)] = fr]]
Pop(S)        == [S EXCEPT !.stack = SubSeq(@, 1, Len(@) - 1)]
Push(S, fr)   == [S EXCEPT !.stack = Append(@, fr)]
Full(S)       == Len(S.stack) >= MaxDepth

\* one package-level cloner for every caller
clonerShared(p) == 1

\* which cloner (visited-table) the call of caller p works with: its own,
\* built by the entry point (lines 34-36, 52-54, 69-71, 87-89)
clonerOf(p) == p

NewTable == [k \in {} |-> Nil("*int")]

\* the table keyed by the address alone
KeyByAddress(t, a) == [t |-> "", a |-> a]

Key(t, a) == [t |-> t, a |-> a]

\* ptrs, exists := c.ptrs[t]; newVal, exists := ptrs[addr]
Visited(tbl, t, a) == Key(t, a) \in DOMAIN tbl

Record(tbl, t, a, ptr) ==
    [k \in DOMAIN tbl \cup {Key(t, a)} |-> IF k = Key(t, a) THEN ptr ELSE tbl[k]]

(* ----------------------------------------------------------------------- *)
(* clone: the dispatch on v.Kind()                                         *)
(* ----------------------------------------------------------------------- *)
\* a callable comes back as the nil callable
cloneFuncZero(S, v) == Ret(S, Temp(ZeroVal(v.t)))

\* lines 169-171, case reflect.Func: return v
cloneFunc(S, v) == Ret(S, v)

\* reflect.ValueOf(int8(v.Int())) and its siblings: a copy of the predeclared type
cloneScalar(h, v) ==
    Temp(V(BuiltinOf(KindOf(v)), Wrap(Val(h, v).x, KindOf(v))))

clone(S) ==
    LET v == S.v
        k == KindOf(v)
    IN CASE k = "Invalid"           -> Ret(S, InvalidRV)
         [] k \in ScalarKinds       -> Ret(S, cloneScalar(S.heap, v))
         [] k \in {"Array", "Slice"} -> Call(S, "cloneSlice", v)
         [] k = "Map"               -> Call(S, "cloneMap", v)
         [] k = "Ptr"               -> Call(S, "clonePtr", v)
         [] k = "Struct"            -> Call(S, "cloneStruct", v)
         [] k = "Func"              -> cloneFunc(S, v)
         [] k = "Interface"         -> Call(S, "clone", Elem(S.heap, v))
         [] OTHER                   -> Ret(S, Temp(ZeroVal(v.t)))

(* ----------------------------------------------------------------------- *)
(* cloneSlice                                                              *)
(* ----------------------------------------------------------------------- *)
\* the loop over the elements, handing back the source's own slice header
sliceLoopShallow(S) ==
    LET fr == Top(S) IN
    IF fr.i < SliceLen(S.heap, fr.v)
    THEN Call(S, "clone", Index(S.heap, fr.v, fr.i + 1))
    ELSE Ret(Pop(S), Temp(Val(S.heap, fr.v)))

\* the head of the loop over the elements; fr.i elements are done
sliceLoop(S) ==
    LET fr == Top(S) IN
    IF fr.i < SliceLen(S.heap, fr.v)
    THEN Call(S, "clone", Index(S.heap, fr.v, fr.i + 1))
    ELSE Ret(Pop(S), Temp(SliceV(fr.v.t, fr.obj, SliceLen(S.heap, fr.v))))

cloneSliceEnter(S, p) ==
    LET v == S.v
        k == KindOf(v)
    IN IF k \notin IsNilKinds THEN Panic(S, "IsNil")
       ELSE IF IsNil(S.heap, v) THEN Ret(S, Temp(ZeroVal(v.t)))
       ELSE IF k # "Slice" THEN Panic(S, "MakeSlice")
       ELSE IF Full(S) THEN Overflow(S)
       ELSE LET n   == SliceLen(S.heap, v)
                arr == Backing([i \in 1..n |-> ZeroVal(TypeInfo[v.t].elem)])
                fr  == [Frame("cloneSlice", v) EXCEPT !.obj = Fresh(S.heap, p)]
            IN sliceLoop(Push([S EXCEPT !.heap = Alloc(S.heap, p, arr)], fr))

\* the element is moved: the slot of the source is cleared
cloneSliceResumeMove(S) ==
    LET fr   == Top(S)
        val  == S.v
        slot == TypeInfo[fr.v.t].elem
        nxt  == [fr EXCEPT !.i = @ + 1]
        from == At(Val(S.heap, fr.v).x[1].obj, <<fr.i + 1>>)
    IN IF ~val.valid THEN sliceLoop(SetTop(S, nxt))
       ELSE IF ~Convertible(val.t, slot) THEN Panic(S, "Convert")
       ELSE sliceLoop(SetTop(
              [S EXCEPT !.heap = WriteAt(WriteAt(@, At(fr.obj, <<fr.i + 1>>),
                                                 ConvertVal(Val(S.heap, val), slot)),
                                         from, ZeroVal(slot))],
              nxt))

\* an element whose clone is invalid ends the loop
cloneSliceResumeStop(S) ==
    LET fr   == Top(S)
        val  == S.v
        slot == TypeInfo[fr.v.t].elem
        nxt  == [fr EXCEPT !.i = @ + 1]
    IN IF ~val.valid
       THEN Ret(Pop(S), Temp(SliceV(fr.v.t, fr.obj, SliceLen(S.heap, fr.v))))
       ELSE IF ~Convertible(val.t, slot) THEN Panic(S, "Convert")
       ELSE sliceLoop(SetTop(
              [S EXCEPT !.heap = WriteAt(@, At(fr.obj, <<fr.i + 1>>),
                                         ConvertVal(Val(S.heap, val), slot))],
              nxt))

cloneSliceResume(S) ==
    LET fr   == Top(S)
        val  == S.v
        slot == TypeInfo[fr.v.t].elem
        nxt  == [fr EXCEPT !.i = @ + 1]
    IN IF ~val.valid THEN sliceLoop(SetTop(S, nxt))
       ELSE IF ~Convertible(val.t, slot) THEN Panic(S, "Convert")
       ELSE sliceLoop(SetTop(
              [S EXCEPT !.heap = WriteAt(@, At(fr.obj, <<fr.i + 1>>),
                                         ConvertVal(Val(S.heap, val), slot))],
              nxt))

(* ----------------------------------------------------------------------- *)
(* cloneMap                                                                *)
(* ----------------------------------------------------------------------- *)
isNillable(v) == KindOf(v) \in {"Chan", "Interface", "Ptr", "Func"}

\* the head of the loop over v.MapKeys(); fr.keys are the keys still to do
mapLoop(S) ==
    LET fr == Top(S) IN
    IF fr.keys # <<>>
    THEN Call(SetTop(S, [fr EXCEPT !.pc = "key"]), "clone", Temp(Head(fr.keys)))
    ELSE Ret(Pop(S), Temp(MapV(fr.v.t, fr.obj)))

cloneMapEnter(S, p, order) ==
    LET v == S.v
        k == KindOf(v)
    IN IF k \notin IsNilKinds THEN Panic(S, "IsNil")
       ELSE IF IsNil(S.heap, v) THEN Ret(S, Temp(ZeroVal(v.t)))
       ELSE IF k # "Map" THEN Panic(S, "MakeMap")
       ELSE IF Full(S) THEN Overflow(S)
       ELSE LET fr == [Frame("cloneMap", v) EXCEPT !.obj = Fresh(S.heap, p),
                                                    !.keys = order]
            IN mapLoop(Push([S EXCEPT !.heap = Alloc(S.heap, p, HMap({}))], fr))

\* clonedMap.SetMapIndex(clonedKey, clonedValue)
SetMapIndex(m, k, v) == [m EXCEPT !.x = {e \in @ : e.k # k} \cup {[k |-> k, v |-> v]}]

\* an entry whose value cloned to an invalid value is left out
mapStoreOmit(S, fr, ck, cv) ==
    LET kt      == TypeInfo[fr.v.t].key
        vt      == TypeInfo[fr.v.t].elem
        convK   == ~isNillable(ck) \/ ~IsNil(S.heap, ck)
        convV   == (~isNillable(cv) \/ ~IsNil(S.heap, cv)) /\ cv.valid
        keyVal  == IF convK THEN ConvertVal(Val(S.heap, ck), kt) ELSE Val(S.heap, ck)
        v1      == IF convV THEN ConvertVal(Val(S.heap, cv), vt) ELSE Val(S.heap, cv)
        elemVal == IF ~cv.valid THEN ZeroVal(vt) ELSE v1
        nxt     == [fr EXCEPT !.keys = Tail(@), !.pc = "", !.ck = InvalidRV]
    IN IF ~cv.valid THEN mapLoop(SetTop(S, nxt))
       ELSE IF convK /\ ~ck.valid THEN Panic(S, "Convert of zero Value")
       ELSE IF convK /\ ~Convertible(ck.t, kt) THEN Panic(S, "Convert")
       ELSE IF convV /\ ~Convertible(cv.t, vt) THEN Panic(S, "Convert")
       ELSE IF ~Assignable(keyVal.t, kt) \/ ~Assignable(elemVal.t, vt)
            THEN Panic(S, "SetMapIndex")
       ELSE mapLoop(SetTop(
              [S EXCEPT !.heap = [@ EXCEPT ![fr.obj] =
                                    SetMapIndex(@, AsT(keyVal, kt), AsT(elemVal, vt))]],
              nxt))

\* lines 219-231, once both clones of one entry are there
mapStore(S, fr, ck, cv) ==
    LET kt      == TypeInfo[fr.v.t].key
        vt      == TypeInfo[fr.v.t].elem
        convK   == ~isNillable(ck) \/ ~IsNil(S.heap, ck)
        convV   == (~isNillable(cv) \/ ~IsNil(S.heap, cv)) /\ cv.valid
        keyVal  == IF convK THEN ConvertVal(Val(S.heap, ck), kt) ELSE Val(S.heap, ck)
        v1      == IF convV THEN ConvertVal(Val(S.heap, cv), vt) ELSE Val(S.heap, cv)
        elemVal == IF ~cv.valid THEN ZeroVal(vt) ELSE v1
        nxt     == [fr EXCEPT !.keys = Tail(@), !.pc = "", !.ck = InvalidRV]
    IN IF convK /\ ~ck.valid THEN Panic(S, "Convert of zero Value")
       ELSE IF convK /\ ~Convertible(ck.t, kt) THEN Panic(S, "Convert")
       ELSE IF convV /\ ~Convertible(cv.t, vt) THEN Panic(S, "Convert")
       ELSE IF ~Assignable(keyVal.t, kt) \/ ~Assignable(elemVal.t, vt)
            THEN Panic(S, "SetMapIndex")
       ELSE mapLoop(SetTop(
              [S EXCEPT !.heap = [@ EXCEPT ![fr.obj] =
                                    SetMapIndex(@, AsT(keyVal, kt), AsT(elemVal, vt))]],
              nxt))

cloneMapResume(S) ==
    LET fr == Top(S) IN
    IF fr.pc = "key"
    THEN Call(SetTop(S, [fr EXCEPT !.pc = "val", !.ck = S.v]), "clone",
              MapIndex(S.heap, fr.v, Head(fr.keys)))
    ELSE mapStore(S, fr, fr.ck, S.v)

(* ----------------------------------------------------------------------- *)
(* clonePtr                                                                *)
(* ----------------------------------------------------------------------- *)
\* lines 244-251 and 255-262: v.Elem().CanAddr() and the two-level lookup
ptrSeen(S, v) ==
    /\ Elem(S.heap, v).canAddr
    /\ Visited(S.ptrs, v.t, UnsafeAddr(S.heap, Elem(S.heap, v).addr))

ptrFound(S, v) == S.ptrs[Key(v.t, UnsafeAddr(S.heap, Elem(S.heap, v).addr))]

\* a nil pointer comes back as a pointer to a freshly allocated zero value
clonePtrNilAlloc(S, p, v) ==
    Ret([S EXCEPT !.heap = Alloc(S.heap, p, ZeroVal(TypeInfo[v.t].elem))],
        Temp(PtrV(v.t, At(Fresh(S.heap, p), <<>>))))

\* lines 238-240, a nil pointer: return reflect.Zero(v.Type())
clonePtrNil(S, p, v) == Ret(S, Temp(ZeroVal(v.t)))

clonePtrEnter(S, p) ==
    LET v == S.v IN
    IF IsNil(S.heap, v) THEN clonePtrNil(S, p, v)
    ELSE IF ptrSeen(S, v) THEN Ret(S, Temp(ptrFound(S, v)))
    ELSE IF Full(S) THEN Overflow(S)
    ELSE Call(Push(S, Frame("clonePtr", v)), "clone", Elem(S.heap, v))

\* the second lookup is skipped: a second instance is always allocated
clonePtrResumeAlloc(S, p) ==
    LET newVal == S.v
    IN IF ~newVal.valid THEN Panic(S, "Type of zero Value")
       ELSE Ret(Pop([S EXCEPT !.heap = Alloc(S.heap, p, Val(S.heap, newVal))]),
                Temp(PtrV(PtrTo(newVal.t), At(Fresh(S.heap, p), <<>>))))

clonePtrResume(S, p) ==
    LET v      == Top(S).v
        newVal == S.v
    IN IF ptrSeen(S, v) THEN Ret(Pop(S), Temp(ptrFound(S, v)))
       ELSE IF ~newVal.valid THEN Panic(S, "Type of zero Value")
       ELSE Ret(Pop([S EXCEPT !.heap = Alloc(S.heap, p, Val(S.heap, newVal))]),
                Temp(PtrV(PtrTo(newVal.t), At(Fresh(S.heap, p), <<>>))))

(* ----------------------------------------------------------------------- *)
(* cloneStruct                                                             *)
(* ----------------------------------------------------------------------- *)
\* the new instance is never recorded
registerNever(S, v, newPtr) == S.ptrs

\* lines 274-281: record the new instance under the source's type and address
registerStruct(S, v, newPtr) ==
    IF v.canAddr
    THEN Record(S.ptrs, newPtr.t, UnsafeAddr(S.heap, v.addr), newPtr)
    ELSE S.ptrs

\* every field of the new instance can be set
CanSetAny(t, i) == TRUE

\* newStructValue.CanSet(): the field of the new instance is exported
CanSet(t, i) == TypeInfo[t].fields[i].exp

RECURSIVE structLoop(_)
\* the head of the loop over the fields; fr.i fields are done
structLoop(S) ==
    LET fr == Top(S) IN
    IF fr.i < NumField(fr.v.t)
    THEN IF ~CanSet(fr.v.t, fr.i + 1)
         THEN structLoop(SetTop(S, [fr EXCEPT !.i = @ + 1]))
         ELSE Call(S, "clone", Field(S.heap, fr.v, fr.i + 1))
    ELSE Ret(Pop(S), Place(S.heap, At(fr.obj, <<>>)))

cloneStructEnter(S, p) ==
    LET v == S.v IN
    IF ~v.valid THEN Panic(S, "Type of zero Value")
    ELSE LET o      == Fresh(S.heap, p)
             newPtr == PtrV(PtrTo(v.t), At(o, <<>>))
             S2     == [S EXCEPT !.heap = Alloc(S.heap, p, ZeroVal(v.t)),
                                 !.ptrs = registerStruct(S, v, newPtr)]
         IN IF KindOf(v) # "Struct" THEN Panic(S2, "NumField")
            ELSE IF Full(S2) THEN Overflow(S2)
            ELSE structLoop(Push(S2, [Frame("cloneStruct", v) EXCEPT !.obj = o]))

cloneStructResume(S) ==
    LET fr  == Top(S)
        cv  == S.v
        ft  == TypeInfo[fr.v.t].fields[fr.i + 1].t
        nxt == [fr EXCEPT !.i = @ + 1]
    IN IF ~cv.valid THEN structLoop(SetTop(S, nxt))
       ELSE IF ~Convertible(cv.t, ft) THEN Panic(S, "Convert")
       ELSE structLoop(SetTop(
              [S EXCEPT !.heap = WriteAt(@, At(fr.obj, <<fr.i + 1>>),
                                         ConvertVal(Val(S.heap, cv), ft))],
              nxt))

(* ----------------------------------------------------------------------- *)
(* Source graphs and calls                                                 *)
(* ----------------------------------------------------------------------- *)
I(n)    == V("int", n)
I32(n)  == V("int32", n)
Str(s)  == V("string", s)
P(t, n) == PtrV(t, At(Src(n), <<>>))
KV(k, v) == [k |-> k, v |-> v]
NodeV(name, next) == V("Node", <<Str(name), next>>)

E(fn, T, v) == [fn |-> fn, T |-> T, src |-> Box(v)]

\* the same input handed to each of the four entry points
All4(T, v) == {E("DeepClone", T, v), E("CloneStruct", T, v),
               E("CloneSlice", T, v), E("CloneMap", T, v)}

NoHeap == [o \in {} |-> I(0)]

\* []int{1, 2, 3}
FxSlice ==
    [heap    |-> (Src(1) :> Backing(<<I(1), I(2), I(3)>>)),
     entries |-> All4("[]int", SliceV("[]int", Src(1), 3))]

\* map[string]int32{"a": 1, "b": 2}
FxMap ==
    [heap    |-> (Src(1) :> HMap({KV(Str("a"), I32(1)), KV(Str("b"), I32(2))})),
     entries |-> All4("map[string]int32", MapV("map[string]int32", Src(1)))]

\* n := Node{Name: "a"}; n.Next = &n
FxSelf ==
    [heap    |-> (Src(1) :> NodeV("a", P("*Node", 1))),
     entries |-> {E("DeepClone", "*Node", P("*Node", 1)),
                  E("CloneStruct", "Node", P("*Node", 1)),
                  E("CloneStruct", "*Node", P("*Node", 1))}]

\* the same record handed over by value
FxSelfVal ==
    [heap    |-> (Src(1) :> NodeV("a", P("*Node", 1))),
     entries |-> {E("DeepClone", "Node", NodeV("a", P("*Node", 1))),
                  E("CloneStruct", "Node", NodeV("a", P("*Node", 1)))}]

\* a := Node{"a", &b}; b := Node{"b", &a}
FxPair ==
    [heap    |-> (Src(1) :> NodeV("a", P("*Node", 2)))
              @@ (Src(2) :> NodeV("b", P("*Node", 1))),
     entries |-> {E("DeepClone", "*Node", P("*Node", 1))}]

\* x := 7; []*int{&x, &x, nil}
FxShareInt ==
    [heap    |-> (Src(1) :> I(7))
              @@ (Src(2) :> Backing(<<P("*int", 1), P("*int", 1), Nil("*int")>>)),
     entries |-> {E("DeepClone", "[]*int", SliceV("[]*int", Src(2), 3)),
                  E("CloneSlice", "[]*int", SliceV("[]*int", Src(2), 3))}]

\* s := []int{1, 2}; []*[]int{&s, &s}
FxShareSlice ==
    [heap    |-> (Src(1) :> Backing(<<I(1), I(2)>>))
              @@ (Src(2) :> SliceV("[]int", Src(1), 2))
              @@ (Src(3) :> Backing(<<P("*[]int", 2), P("*[]int", 2)>>)),
     entries |-> {E("DeepClone", "[]*[]int", SliceV("[]*[]int", Src(3), 2))}]

\* m := map[string]int32{"a": 1}; []*map[string]int32{&m, &m}
FxShareMap ==
    [heap    |-> (Src(1) :> HMap({KV(Str("a"), I32(1))}))
              @@ (Src(2) :> MapV("map[string]int32", Src(1)))
              @@ (Src(3) :> Backing(<<P("*map[string]int32", 2),
                                      P("*map[string]int32", 2)>>)),
     entries |-> {E("DeepClone", "[]*map[string]int32",
                    SliceV("[]*map[string]int32", Src(3), 2))}]

\* a, b := Node{Name: "a"}, Node{Name: "b"}; []*Node{&a, &b, &a}
FxShareNode ==
    [heap    |-> (Src(1) :> NodeV("a", Nil("*Node")))
              @@ (Src(2) :> NodeV("b", Nil("*Node")))
              @@ (Src(3) :> Backing(<<P("*Node", 1), P("*Node", 2), P("*Node", 1)>>)),
     entries |-> {E("DeepClone", "[]*Node", SliceV("[]*Node", Src(3), 3))}]

\* scalars at the boundaries of their width
FxScalar ==
    [heap    |-> NoHeap,
     entries |-> {E("DeepClone", "int8", V("int8", -128)),
                  E("DeepClone", "int8", V("int8", 127)),
                  E("DeepClone", "int8", V("int8", -1)),
                  E("DeepClone", "uint8", V("uint8", 0)),
                  E("DeepClone", "uint8", V("uint8", 255)),
                  E("DeepClone", "int16", V("int16", -32768)),
                  E("DeepClone", "uint16", V("uint16", 65535)),
                  E("DeepClone", "int64", V("int64", -2147483647)),
                  E("DeepClone", "any", V("uint8", 200)),
                  E("DeepClone", "MyInt8", V("MyInt8", -1)),
                  E("DeepClone", "string", Str("a"))}]

\* a scalar or the untyped nil handed to each entry point
FxWrongShape ==
    [heap    |-> NoHeap,
     entries |-> {E("CloneSlice", "int8", V("int8", 5)),
                  E("CloneMap", "int8", V("int8", 5)),
                  E("CloneStruct", "int8", V("int8", 5)),
                  [fn |-> "DeepClone", T |-> "any", src |-> Nil("any")],
                  [fn |-> "CloneSlice", T |-> "any", src |-> Nil("any")],
                  [fn |-> "CloneMap", T |-> "any", src |-> Nil("any")],
                  [fn |-> "CloneStruct", T |-> "Node", src |-> Nil("any")]}]

RecV == V("Rec", <<I(5), I(6), V("func()", <<1>>), V("chan int", <<1>>), Nil("*int")>>)

\* null indirections, and a record with a private field and a null field
FxNil ==
    [heap    |-> (Src(2) :> RecV),
     entries |-> {E("DeepClone", "*Node", Nil("*Node")),
                  E("DeepClone", "Rec", RecV),
                  E("DeepClone", "*Rec", P("*Rec", 2)),
                  E("CloneStruct", "Rec", RecV)}]

\* null sequences and maps, a null indirection as a map value, a callable
FxNilSeq ==
    [heap    |-> (Src(1) :> HMap({KV(Str("a"), Nil("*int"))})),
     entries |-> {E("DeepClone", "map[string]*int", MapV("map[string]*int", Src(1))),
                  E("DeepClone", "[]int", Nil("[]int")),
                  E("CloneSlice", "[]int", Nil("[]int")),
                  E("CloneMap", "map[string]int32", Nil("map[string]int32")),
                  E("CloneSlice", "map[string]int32", Nil("map[string]int32")),
                  E("DeepClone", "func()", V("func()", <<1>>))}]

\* arrays, channels, scalars of a declared type inside containers
FxOdd ==
    [heap    |-> (Src(5) :> V("MyInt8", 4)),
     entries |-> {E("DeepClone", "[2]int", V("[2]int", <<I(1), I(2)>>)),
                  E("DeepClone", "Holder", V("Holder", <<V("[2]int", <<I(1), I(2)>>)>>)),
                  E("DeepClone", "chan int", V("chan int", <<1>>)),
                  E("DeepClone", "Boxes", V("Boxes", <<V("MyInt8", -3), Box(V("int8", 5))>>)),
                  E("DeepClone", "*MyInt8", P("*MyInt8", 5))}]

\* nil interfaces behind a pointer, as a map key, as an element and as a map value
FxBoxedNil ==
    [heap    |-> (Src(1) :> Nil("any"))
              @@ (Src(2) :> HMap({KV(Nil("any"), I(1))}))
              @@ (Src(3) :> Backing(<<Nil("any"), Box(I(5))>>))
              @@ (Src(4) :> HMap({KV(Str("a"), Nil("any"))})),
     entries |-> {E("DeepClone", "*any", P("*any", 1)),
                  E("DeepClone", "map[any]int", MapV("map[any]int", Src(2))),
                  E("DeepClone", "[]any", SliceV("[]any", Src(3), 2)),
                  E("DeepClone", "map[string]any", MapV("map[string]any", Src(4)))}]

\* map[string]int32{"a": 1, "b": 2} cloned for a caller that wants a
\* map[string]int64: CloneMap[T](src T) takes it only with T = any, and
\* CloneStruct[T](src any) is the one entry point whose T is free
FxWiden ==
    [heap    |-> (Src(1) :> HMap({KV(Str("a"), I32(1)), KV(Str("b"), I32(2))})),
     entries |-> {E("CloneMap", "any", MapV("map[string]int32", Src(1))),
                  E("CloneStruct", "map[string]int64", MapV("map[string]int32", Src(1)))}]

\* s := []Node{{Name: "a"}}; PS{P: &s[0], S: s}
FxPtrThenSlice ==
    [heap    |-> (Src(1) :> Backing(<<NodeV("a", Nil("*Node"))>>)),
     entries |-> {E("DeepClone", "PS",
                    V("PS", <<PtrV("*Node", At(Src(1), <<1>>)),
                              SliceV("[]Node", Src(1), 1)>>))}]

\* s := []Node{{Name: "a"}}; SP{S: s, P: &s[0]}
FxSliceThenPtr ==
    [heap    |-> (Src(1) :> Backing(<<NodeV("a", Nil("*Node"))>>)),
     entries |-> {E("DeepClone", "SP",
                    V("SP", <<SliceV("[]Node", Src(1), 1),
                              PtrV("*Node", At(Src(1), <<1>>))>>)),
                  E("CloneSlice", "[]Node", SliceV("[]Node", Src(1), 1))}]

\* w := Wrap{Inner: Node{Name: "a"}}; w.P = &w.Inner; &w
FxWrap ==
    [heap    |-> (Src(1) :> V("Wrap", <<NodeV("a", Nil("*Node")),
                                       PtrV("*Node", At(Src(1), <<1>>))>>)),
     entries |-> {E("DeepClone", "*Wrap", P("*Wrap", 1))}]

\* m := map[string]any{}; m["self"] = m
\* s := make([]any, 1); s[0] = s
\* var b any; b = &b
FxLoops ==
    [heap    |-> (Src(1) :> HMap({KV(Str("self"), Box(MapV("map[string]any", Src(1))))}))
              @@ (Src(2) :> Backing(<<Box(SliceV("[]any", Src(2), 1))>>))
              @@ (Src(3) :> Box(P("*any", 3))),
     entries |-> {E("DeepClone", "map[string]any", MapV("map[string]any", Src(1))),
                  E("DeepClone", "[]any", SliceV("[]any", Src(2), 1)),
                  E("DeepClone", "*any", P("*any", 3)),
                  E("CloneSlice", "[]any", SliceV("[]any", Src(2), 1))}]

\* n := Node{Name: "a"}; Both{N: &n, S: &n.Name}
FxBoth ==
    [heap    |-> (Src(1) :> NodeV("a", Nil("*Node"))),
     entries |-> {E("DeepClone", "Both",
                    V("Both", <<P("*Node", 1), PtrV("*string", At(Src(1), <<1>>))>>))}]

\* non-nil pointers to a scalar, a boxed value, a pointer and a slice
FxPtrs ==
    [heap    |-> (Src(1) :> I(7))
              @@ (Src(2) :> Box(I(5)))
              @@ (Src(3) :> NodeV("a", Nil("*Node")))
              @@ (Src(4) :> P("*Node", 3))
              @@ (Src(5) :> Backing(<<I(1), I(2)>>))
              @@ (Src(6) :> SliceV("[]int", Src(5), 2)),
     entries |-> {E("DeepClone", "*int", P("*int", 1)),
                  E("DeepClone", "*any", P("*any", 2)),
                  E("DeepClone", "**Node", P("**Node", 4)),
                  E("DeepClone", "*[]int", P("*[]int", 6))}]

\* x := 7; []any{nil, 5, &x}  and  []MyInt8{-3, 4}
FxSeq ==
    [heap    |-> (Src(1) :> I(7))
              @@ (Src(2) :> Backing(<<Nil("any"), Box(I(5)), Box(P("*int", 1))>>))
              @@ (Src(3) :> Backing(<<V("MyInt8", -3), V("MyInt8", 4)>>)),
     entries |-> {E("DeepClone", "[]any", SliceV("[]any", Src(2), 3)),
                  E("CloneSlice", "[]MyInt8", SliceV("[]MyInt8", Src(3), 2)),
                  E("CloneSlice", "[]any", Nil("[]any"))}]

\* x := 7; map[string]any{"a": nil, "b": 5}  and  map[MyInt8]*int{1: nil, 2: &x}
FxMapNil ==
    [heap    |-> (Src(1) :> I(7))
              @@ (Src(2) :> HMap({KV(Str("a"), Nil("any")), KV(Str("b"), Box(I(5)))}))
              @@ (Src(3) :> HMap({KV(V("MyInt8", 1), Nil("*int")),
                                  KV(V("MyInt8", 2), P("*int", 1))})),
     entries |-> {E("CloneMap", "map[string]any", MapV("map[string]any", Src(2))),
                  E("DeepClone", "map[MyInt8]*int", MapV("map[MyInt8]*int", Src(3))),
                  E("CloneMap", "map[string]any", Nil("map[string]any"))}]

MixedV == V("Mixed", <<SliceV("[]int", Src(2), 2), P("*int", 1),
                       SliceV("[]int", Src(2), 2), V("func()", <<1>>), Nil("any")>>)

\* x := 7; s := []int{1, 2}; Mixed{Pub: s, priv: &x, hid: s, F: f}, by value
\* and behind a pointer
FxMixed ==
    [heap    |-> (Src(1) :> I(7))
              @@ (Src(2) :> Backing(<<I(1), I(2)>>))
              @@ (Src(3) :> MixedV),
     entries |-> {E("CloneStruct", "Mixed", MixedV),
                  E("DeepClone", "*Mixed", P("*Mixed", 3))}]

\* f at top level, []func(){f, nil} and map[string]func(){"f": f, "n": nil}
FxFuncs ==
    [heap    |-> (Src(1) :> Backing(<<V("func()", <<1>>), Nil("func()")>>))
              @@ (Src(2) :> HMap({KV(Str("f"), V("func()", <<1>>)),
                                  KV(Str("n"), Nil("func()"))})),
     entries |-> {E("DeepClone", "func()", V("func()", <<1>>)),
                  E("DeepClone", "[]func()", SliceV("[]func()", Src(1), 2)),
                  E("DeepClone", "map[string]func()", MapV("map[string]func()", Src(2)))}]

BaseFixtures == <<FxSlice, FxMap, FxSelf, FxPair, FxShareInt, FxShareSlice,
                  FxShareMap, FxShareNode, FxScalar, FxNil, FxOdd,
                  FxSelfVal, FxWrongShape, FxNilSeq, FxBoxedNil>>

\* the graphs whose clone hangs on what the visited-table records
TableFixtures == <<FxSelf, FxWrap, FxBoth, FxSliceThenPtr, FxWiden>>

\* those, and the graphs that loop or point at every shape of pointee
GraphFixtures == TableFixtures \o <<FxPtrThenSlice, FxLoops, FxPtrs, FxOdd>>

\* the graphs that show what each rebuild routine puts into the clone
RebuildFixtures == <<FxSeq, FxMapNil, FxMixed, FxFuncs>>

Fixtures == BaseFixtures \o GraphFixtures \o RebuildFixtures

(* ----------------------------------------------------------------------- *)
(* The callers of the clone engine                                         *)
(* ----------------------------------------------------------------------- *)
NoResult == V("", 0)
NoEntry  == [fn |-> "", T |-> "", src |-> Nil("any")]

State(p) == [mode |-> cl[p].mode, fn |-> cl[p].fn, v |-> cl[p].v,
             stack |-> cl[p].stack, why |-> cl[p].why,
             ptrs |-> ptrs[clonerOf(p)], heap |-> heap]

Apply(p, S) ==
    \E s \in {S} :
        /\ cl' = [cl EXCEPT ![p] = [mode |-> s.mode, fn |-> s.fn, v |-> s.v,
                                    stack |-> s.stack, why |-> s.why,
                                    steps |-> cl[p].steps + 1]]
        /\ ptrs' = [ptrs EXCEPT ![clonerOf(p)] = s.ptrs]
        /\ heap' = s.heap

Entries(fn) == {e \in Fixtures[fx].entries : e.fn = fn}

\* c := cloner{ptrs: map[...]{}}; result := c.<f>(reflect.ValueOf(src))
Enter(p, e, f) ==
    /\ cl[p].mode = "idle"
    /\ entry' = [entry EXCEPT ![p] = e]
    /\ Apply(p, Call([State(p) EXCEPT !.ptrs = NewTable], f, ValueOf(e.src)))
    /\ UNCHANGED <<fx, result, atomicVars, containerVars>>

DeepClone(p)   == \E e \in Entries("DeepClone")   : Enter(p, e, "clone")
CloneStruct(p) == \E e \in Entries("CloneStruct") : Enter(p, e, "cloneStruct")
CloneSlice(p)  == \E e \in Entries("CloneSlice")  : Enter(p, e, "cloneSlice")
CloneMap(p)    == \E e \in Entries("CloneMap")    : Enter(p, e, "cloneMap")

Calling(p, f)  == cl[p].mode = "call" /\ cl[p].fn = f
Resuming(p, f) == cl[p].mode = "ret" /\ cl[p].stack # <<>> /\ Top(cl[p]).fn = f

Frame0 == UNCHANGED <<fx, entry, result, atomicVars, containerVars>>

StepClone(p) == Calling(p, "clone") /\ Apply(p, clone(State(p))) /\ Frame0

StepCloneSlice(p) ==
    /\ \/ Calling(p, "cloneSlice") /\ Apply(p, cloneSliceEnter(State(p), p))
       \/ Resuming(p, "cloneSlice") /\ Apply(p, cloneSliceResume(State(p)))
    /\ Frame0

\* the orders v.MapKeys() may return the keys in
KeyOrders(S) ==
    IF KindOf(S.v) = "Map" /\ ~IsNil(S.heap, S.v)
    THEN Orders(MapKeys(S.heap, S.v)) ELSE {<<>>}

StepCloneMap(p) ==
    /\ \/ /\ Calling(p, "cloneMap")
          /\ \E order \in KeyOrders(State(p)) :
                Apply(p, cloneMapEnter(State(p), p, order))
       \/ Resuming(p, "cloneMap") /\ Apply(p, cloneMapResume(State(p)))
    /\ Frame0

StepClonePtr(p) ==
    /\ \/ Calling(p, "clonePtr") /\ Apply(p, clonePtrEnter(State(p), p))
       \/ Resuming(p, "clonePtr") /\ Apply(p, clonePtrResume(State(p), p))
    /\ Frame0

StepCloneStruct(p) ==
    /\ \/ Calling(p, "cloneStruct") /\ Apply(p, cloneStructEnter(State(p), p))
       \/ Resuming(p, "cloneStruct") /\ Apply(p, cloneStructResume(State(p)))
    /\ Frame0

\* the tail of every entry point: the zero value of T for an invalid result,
\* result.Interface().(T) otherwise
EntryReturn(p) ==
    /\ cl[p].mode = "ret" /\ cl[p].stack = <<>>
    /\ LET r == cl[p].v
           T == entry[p].T
       IN IF ~r.valid
          THEN /\ result' = [result EXCEPT ![p] = ZeroVal(T)]
               /\ cl' = [cl EXCEPT ![p].mode = "done", ![p].steps = @ + 1]
          ELSE IF AssertsTo(r.t, T)
          THEN /\ result' = [result EXCEPT ![p] = AsT(Val(heap, r), T)]
               /\ cl' = [cl EXCEPT ![p].mode = "done", ![p].steps = @ + 1]
          ELSE /\ result' = result
               /\ cl' = [cl EXCEPT ![p].mode = "panic", ![p].why = "type assertion",
                                    ![p].steps = @ + 1]
    /\ UNCHANGED <<fx, heap, ptrs, entry, atomicVars, containerVars>>

\* the next step of the call caller p is in
Step(p) ==
    \/ StepClone(p) \/ StepCloneSlice(p) \/ StepCloneMap(p)
    \/ StepClonePtr(p) \/ StepCloneStruct(p)
    \/ EntryReturn(p)

CloneNext ==
    \E p \in Procs :
        \/ DeepClone(p) \/ CloneStruct(p) \/ CloneSlice(p) \/ CloneMap(p)
        \/ Step(p)

CloneInit ==
    /\ fx \in 1..Len(BaseFixtures)
    /\ heap = Fixtures[fx].heap
    /\ cl = [p \in Procs |-> Idle]
    /\ ptrs = [p \in Procs |-> NewTable]
    /\ entry = [p \in Procs |-> NoEntry]
    /\ result = [p \in Procs |-> NoResult]

(* ----------------------------------------------------------------------- *)
(* satomic.Value[T] (and the identical spool Value[T])                     *)
(* ----------------------------------------------------------------------- *)
\* how many values the goroutines hand to Store and Swap altogether
MaxStores == 4

Threads == 1..NumThreads

ThIdle == [pc |-> "idle", new |-> 0, old |-> 0]

AtomicInit ==
    /\ cell = <<>>
    /\ th = [t \in Threads |-> ThIdle]
    /\ stored = {}
    /\ olds = [v \in 1..MaxStores |-> 0]
    /\ gone = {}

\* the next value nobody stored yet
NextVal == Cardinality(stored) + 1

\* v.value.Store(val): one atomic step
Store(t) ==
    /\ th[t].pc = "idle" /\ NextVal <= MaxStores
    /\ cell' = <<NextVal>>
    /\ stored' = stored \cup {NextVal}
    /\ gone' = gone \cup {cell[i] : i \in DOMAIN cell}
    /\ UNCHANGED <<th, olds, cloneVars, containerVars>>

\* old = v.value.Load().(T): the assertion panics on the nil of an empty Value
SwapLoad(t) ==
    /\ th[t].pc = "idle" /\ NextVal <= MaxStores
    /\ IF cell = <<>>
       THEN th' = [th EXCEPT ![t].pc = "panic"] /\ stored' = stored
       ELSE /\ th' = [th EXCEPT ![t] = [pc |-> "swapLoaded", new |-> NextVal,
                                         old |-> cell[1]]]
            /\ stored' = stored \cup {NextVal}
    /\ UNCHANGED <<cell, olds, gone, cloneVars, containerVars>>

\* v.value.Store(new); return old
SwapStore(t) ==
    /\ th[t].pc = "swapLoaded"
    /\ cell' = <<th[t].new>>
    /\ olds' = [olds EXCEPT ![th[t].old] = @ + 1]
    /\ th' = [th EXCEPT ![t] = ThIdle]
    /\ UNCHANGED <<stored, gone, cloneVars, containerVars>>

\* return v.value.Load().(T): Load gives nil until the first Store, and the
\* assertion of a nil interface to T panics
Load(t) ==
    /\ th[t].pc = "idle"
    /\ th' = IF cell = <<>> THEN [th EXCEPT ![t].pc = "panic"]
             ELSE [th EXCEPT ![t] = [pc |-> "got", new |-> 0, old |-> cell[1]]]
    /\ UNCHANGED <<cell, stored, olds, gone, cloneVars, containerVars>>

\* val := v.Value.Load(); return reflect.ValueOf(val).IsZero(): ValueOf(nil) is
\* the invalid reflect.Value, on which IsZero panics; T's zero value is 0
IsEmpty(t) ==
    /\ th[t].pc = "idle"
    /\ th' = IF cell = <<>> THEN [th EXCEPT ![t].pc = "panic"]
             ELSE [th EXCEPT ![t].pc = IF cell[1] = 0 THEN "empty" ELSE "nonempty"]
    /\ UNCHANGED <<cell, stored, olds, gone, cloneVars, containerVars>>

\* return v.Value.CompareAndSwap(old, new): one atomic step; false on a Value
\* never stored to, since old is not nil
CompareAndSwap(t) ==
    /\ th[t].pc = "idle" /\ NextVal <= MaxStores
    /\ \E o \in 1..MaxStores :
          IF cell = <<o>>
          THEN /\ cell' = <<NextVal>>
               /\ stored' = stored \cup {NextVal}
               /\ gone' = gone \cup {o}
               /\ th' = [th EXCEPT ![t] = [pc |-> "swapped", new |-> NextVal, old |-> o]]
          ELSE /\ th' = [th EXCEPT ![t] = [pc |-> "notSwapped", new |-> 0, old |-> o]]
               /\ UNCHANGED <<cell, stored, gone>>
    /\ UNCHANGED <<olds, cloneVars, containerVars>>

\* the caller has its result and goes on
AtomicReturn(t) ==
    /\ th[t].pc \in {"got", "empty", "nonempty", "swapped", "notSwapped"}
    /\ th' = [th EXCEPT ![t] = ThIdle]
    /\ UNCHANGED <<cell, stored, olds, gone, cloneVars, containerVars>>

AtomicNext ==
    \E t \in Threads :
        \/ Store(t) \/ SwapLoad(t) \/ SwapStore(t)
        \/ Load(t) \/ IsEmpty(t) \/ CompareAndSwap(t) \/ AtomicReturn(t)

(* ----------------------------------------------------------------------- *)
(* internal/rwmutex, and goroutines sharing one sarray.Array and one       *)
(* smap.Map built with the same safe argument.  Each goroutine runs one    *)
(* operation; an operation is a sequence of steps: the calls on s.mu and   *)
(* the accesses to s.data between and after them.                          *)
(* ----------------------------------------------------------------------- *)
ArrayOps == {"Push", "Remove", "Size", "IteratorDesc"}
MapOps   == {"Set", "Get", "Del"}
WriteOps == {"Push", "Remove", "Set", "Del"}

ContainerOf(op) == IF op \in MapOps THEN "map" ELSE "array"

\* the first call of every operation is s.mu.Lock() or s.mu.RLock()
FirstPc(op) == IF op \in {"Size", "Get"} THEN "rlock" ELSE "lock"

MuFree == [c \in {"array", "map"} |-> [w |-> FALSE, r |-> 0]]

GrIdle == [op |-> "", pc |-> "idle", tmp |-> <<>>, i |-> 0, ret |-> <<>>]

\* the one key the goroutines work on in the shared map
TheKey == "a"

LockIdle ==
    /\ safe = FALSE
    /\ mu = MuFree
    /\ adata = <<0>>
    /\ gr = [g \in Threads |-> GrIdle]

\* rwmutex.New(safe...): safe given as true, or false / omitted
LockInit ==
    /\ safe \in BOOLEAN
    /\ mu = MuFree
    /\ adata = <<0>>
    /\ gr = [g \in Threads |-> GrIdle]

LockFrame == UNCHANGED <<safe, cloneVars, atomicVars, hist, got, arrayVars>>

At2(g, op, pc) == gr[g].op = op /\ gr[g].pc = pc

Goto(g, pc) == [gr EXCEPT ![g].pc = pc]

\* a goroutine calls one operation of the array or the map
GoCall(g) ==
    /\ gr[g].pc = "idle"
    /\ \E op \in ArrayOps \cup MapOps :
          gr' = [gr EXCEPT ![g] = [GrIdle EXCEPT !.op = op, !.pc = FirstPc(op)]]
    /\ UNCHANGED <<mu, adata, mdata>> /\ LockFrame

\* r.Lock(): r.mu.Lock() if r.safe.  IteratorDesc calls Unlock right after
\* (no defer), every other operation goes on to its body
MuLock(g) ==
    LET c == ContainerOf(gr[g].op) IN
    /\ gr[g].pc = "lock"
    /\ safe => ~mu[c].w /\ mu[c].r = 0
    /\ mu' = IF safe THEN [mu EXCEPT ![c].w = TRUE] ELSE mu
    /\ gr' = Goto(g, IF gr[g].op = "IteratorDesc" THEN "unlock" ELSE "body")
    /\ UNCHANGED <<adata, mdata>> /\ LockFrame

\* r.Unlock(): r.mu.Unlock() if r.safe
MuUnlock(g) ==
    LET c == ContainerOf(gr[g].op) IN
    /\ gr[g].pc = "unlock"
    /\ mu' = IF safe THEN [mu EXCEPT ![c].w = FALSE] ELSE mu
    /\ gr' = Goto(g, IF gr[g].op = "IteratorDesc" THEN "len" ELSE "done")
    /\ UNCHANGED <<adata, mdata>> /\ LockFrame

\* r.RLock(): r.mu.RLock() if r.safe
MuRLock(g) ==
    LET c == ContainerOf(gr[g].op) IN
    /\ gr[g].pc = "rlock"
    /\ safe => ~mu[c].w
    /\ mu' = IF safe THEN [mu EXCEPT ![c].r = @ + 1] ELSE mu
    /\ gr' = Goto(g, "body")
    /\ UNCHANGED <<adata, mdata>> /\ LockFrame

\* r.RUnlock(): r.mu.RUnlock() if r.safe
MuRUnlock(g) ==
    LET c == ContainerOf(gr[g].op) IN
    /\ gr[g].pc = "runlock"
    /\ mu' = IF safe THEN [mu EXCEPT ![c].r = @ - 1] ELSE mu
    /\ gr' = Goto(g, "done")
    /\ UNCHANGED <<adata, mdata>> /\ LockFrame

\* s.data = append(s.data, item): the slice is read, then the result stored
PushBody(g) ==
    /\ \/ /\ At2(g, "Push", "body")
          /\ gr' = [gr EXCEPT ![g].tmp = adata, ![g].pc = "write"]
          /\ adata' = adata
       \/ /\ At2(g, "Push", "write")
          /\ adata' = Append(gr[g].tmp, g)
          /\ gr' = Goto(g, "unlock")
    /\ UNCHANGED <<mu, mdata>> /\ LockFrame

\* s.remove(0): value := s.data[0]; s.data = s.data[1:]
RemoveBody(g) ==
    /\ \/ /\ At2(g, "Remove", "body")
          /\ gr' = [gr EXCEPT ![g].tmp = adata, ![g].pc = "write"]
          /\ adata' = adata
       \/ /\ At2(g, "Remove", "write")
          /\ IF gr[g].tmp = <<>>
             THEN adata' = adata /\ gr' = Goto(g, "unlock")
             ELSE /\ adata' = Tail(gr[g].tmp)
                  /\ gr' = [gr EXCEPT ![g].ret = <<Head(gr[g].tmp)>>,
                                      ![g].pc = "unlock"]
    /\ UNCHANGED <<mu, mdata>> /\ LockFrame

\* return len(s.data)
SizeBody(g) ==
    /\ At2(g, "Size", "body")
    /\ gr' = [gr EXCEPT ![g].ret = <<Len(adata)>>, ![g].pc = "runlock"]
    /\ UNCHANGED <<mu, adata, mdata>> /\ LockFrame

\* for i := len(s.data) - 1; i >= 0; i-- { f(i, s.data[i]) }, f returning true;
\* s.data[i] panics when the slice has become shorter than i + 1
IteratorDescBody(g) ==
    /\ \/ /\ At2(g, "IteratorDesc", "len")
          /\ gr' = [gr EXCEPT ![g].i = Len(adata), ![g].pc = "elem"]
       \/ /\ At2(g, "IteratorDesc", "elem")
          /\ gr' = IF gr[g].i = 0 THEN Goto(g, "done")
                   ELSE IF gr[g].i > Len(adata) THEN Goto(g, "panic")
                   ELSE [gr EXCEPT ![g].ret = Append(@, adata[gr[g].i]),
                                   ![g].i = @ - 1]
    /\ UNCHANGED <<mu, adata, mdata>> /\ LockFrame

\* s.data[key] = value
SetBody(g) ==
    /\ At2(g, "Set", "body")
    /\ mdata' = [k \in DOMAIN mdata \cup {TheKey} |-> IF k = TheKey THEN g ELSE mdata[k]]
    /\ gr' = Goto(g, "unlock")
    /\ UNCHANGED <<mu, adata>> /\ LockFrame

\* v, ok = s.data[key]
GetBody(g) ==
    /\ At2(g, "Get", "body")
    /\ gr' = [gr EXCEPT ![g].ret = IF TheKey \in DOMAIN mdata
                                    THEN <<mdata[TheKey], TRUE>> ELSE <<0, FALSE>>,
                        ![g].pc = "runlock"]
    /\ UNCHANGED <<mu, adata, mdata>> /\ LockFrame

\* delete(s.data, key)
DelBody(g) ==
    /\ At2(g, "Del", "body")
    /\ mdata' = [k \in DOMAIN mdata \ {TheKey} |-> mdata[k]]
    /\ gr' = Goto(g, "unlock")
    /\ UNCHANGED <<mu, adata>> /\ LockFrame

LockNext ==
    \E g \in Threads :
        \/ GoCall(g)
        \/ MuLock(g) \/ MuUnlock(g) \/ MuRLock(g) \/ MuRUnlock(g)
        \/ PushBody(g) \/ RemoveBody(g) \/ SizeBody(g) \/ IteratorDescBody(g)
        \/ SetBody(g) \/ GetBody(g) \/ DelBody(g)

(* ----------------------------------------------------------------------- *)
(* container/smap: one Map used by one goroutine, call after call.  Every  *)
(* operation takes s.mu on entry and releases it by defer, so between two  *)
(* calls the mutex is free whatever safe is.                               *)
(* ----------------------------------------------------------------------- *)
\* calls made on the map in one run
MaxCalls == 3

MKeys == {"a", "b"}
MVals == {1, 2}

\* the callbacks handed to Filter, DeleteWith and Iterator: f(k, v) is true
\* for the keys and values listed
Preds == {[keys |-> {"a"}, vals |-> MVals],
          [keys |-> MKeys, vals |-> {1}],
          [keys |-> MKeys, vals |-> MVals]}

Holds(f, k, v) == k \in f.keys /\ v \in f.vals

NoPred == [keys |-> {}, vals |-> {}]

MCall(op, k, v, f) == [op |-> op, k |-> k, v |-> v, f |-> f]

\* New: data: make(map[K]V)
MapIdle ==
    /\ mdata = [k \in {} |-> 0]
    /\ hist = <<>>
    /\ got = <<>>

MapFrame == UNCHANGED <<cloneVars, atomicVars, lockVars, arrayVars>>

Called(c) == Len(hist) < MaxCalls /\ hist' = Append(hist, c)

\* s.data[key] = value
Set(k, v) ==
    /\ Called(MCall("Set", k, v, NoPred))
    /\ mdata' = [x \in DOMAIN mdata \cup {k} |-> IF x = k THEN v ELSE mdata[x]]
    /\ got' = <<>>
    /\ MapFrame

\* v, ok = s.data[key]: the zero value and false for a key that is absent
Get(k) ==
    /\ Called(MCall("Get", k, 0, NoPred))
    /\ got' = IF k \in DOMAIN mdata THEN <<mdata[k], TRUE>> ELSE <<0, FALSE>>
    /\ mdata' = mdata
    /\ MapFrame

\* the key stays
DelNothing(k) ==
    /\ Called(MCall("Del", k, 0, NoPred))
    /\ mdata' = mdata
    /\ got' = <<>>
    /\ MapFrame

\* delete(s.data, key)
Del(k) ==
    /\ Called(MCall("Del", k, 0, NoPred))
    /\ mdata' = [x \in DOMAIN mdata \ {k} |-> mdata[x]]
    /\ got' = <<>>
    /\ MapFrame

\* for k, v := range s.data { if f(k, v) { delete(s.data, k) } }: deleting the
\* entry the range is at is allowed, and removes nothing else
DeleteWith(f) ==
    /\ Called(MCall("DeleteWith", "", 0, f))
    /\ mdata' = [x \in {y \in DOMAIN mdata : ~Holds(f, y, mdata[y])} |-> mdata[x]]
    /\ got' = <<>>
    /\ MapFrame

\* result[k] = v for the entries f accepts
Filter(f) ==
    /\ Called(MCall("Filter", "", 0, f))
    /\ got' = <<[x \in {y \in DOMAIN mdata : Holds(f, y, mdata[y])} |-> mdata[x]]>>
    /\ mdata' = mdata
    /\ MapFrame

\* data[k] = v for every entry
CopyMap ==
    /\ Called(MCall("CopyMap", "", 0, NoPred))
    /\ got' = <<[x \in DOMAIN mdata |-> mdata[x]]>>
    /\ mdata' = mdata
    /\ MapFrame

\* for k, v := range s.data { if !f(k, v) { return } }: the entries f was
\* handed, in the order the range produced them
Iterator(f) ==
    /\ Called(MCall("Iterator", "", 0, f))
    /\ \E order \in Orders(DOMAIN mdata) :
          LET stop == {i \in DOMAIN order : ~Holds(f, order[i], mdata[order[i]])}
              n    == IF stop = {} THEN Len(order)
                      ELSE CHOOSE i \in stop : \A j \in stop : i <= j
          IN got' = <<[i \in 1..n |-> <<order[i], mdata[order[i]]>>]>>
    /\ mdata' = mdata
    /\ MapFrame

MapNext ==
    \/ \E k \in MKeys, v \in MVals : Set(k, v)
    \/ \E k \in MKeys : Get(k) \/ Del(k)
    \/ \E f \in Preds : DeleteWith(f) \/ Filter(f) \/ Iterator(f)
    \/ CopyMap

(* ----------------------------------------------------------------------- *)
(* container/sarray: an Array and its Clone, used by one goroutine, call   *)
(* after call.  s.data is a Go slice: a header (backing array, offset,     *)
(* length, capacity) over cells that other headers may share.              *)
(* ----------------------------------------------------------------------- *)
\* calls made on the arrays in one run
MaxArrayCalls == 4

AVals == {1, 2}
AIdx  == 0..2

Hdr(p, o, l, c) == [ptr |-> p, off |-> o, len |-> l, cap |-> c]

\* the elements a header shows
Elems(st, h) == [i \in 1..h.len |-> st[h.ptr][h.off + i]]

\* the id of the next backing array
NewId(st) == CHOOSE n \in 1..(Cardinality(DOMAIN st) + 1) : n \notin DOMAIN st

WithArr(st, id, cells) ==
    [n \in DOMAIN st \cup {id} |-> IF n = id THEN cells ELSE st[n]]

\* make([]V, n, c); a slice of capacity 0 has no cells (backing array 0)
MakeSlice(st, n, c) ==
    IF c = 0 THEN [st |-> st, h |-> Hdr(0, 0, 0, 0)]
    ELSE [st |-> WithArr(st, NewId(st), [i \in 1..c |-> 0]),
          h  |-> Hdr(NewId(st), 0, n, c)]

\* copy(dst, src) for len(dst) = len(src)
CopyInto(st, dst, xs) ==
    IF dst.cap = 0 THEN st
    ELSE [st EXCEPT ![dst.ptr] =
            [i \in DOMAIN @ |-> IF i - dst.off \in DOMAIN xs THEN xs[i - dst.off] ELSE @[i]]]

\* append(h, xs...): in place when the capacity allows, else into a new
\* backing array whose capacity is what is needed plus extra (the growth
\* the runtime adds is not fixed by the language)
AppendTo(st, h, xs, extra) ==
    LET need == h.len + Len(xs) IN
    IF need <= h.cap
    THEN [st |-> CopyInto(st, Hdr(h.ptr, h.off + h.len, Len(xs), 1), xs),
          h  |-> [h EXCEPT !.len = need]]
    ELSE LET m == MakeSlice(st, need, need + extra)
         IN [st |-> CopyInto(m.st, m.h, Elems(st, h) \o xs), h |-> m.h]

\* backing arrays no array refers to any more are dropped
Collect(st, as) ==
    [n \in {m \in DOMAIN st : m = 0 \/ \E x \in DOMAIN as : as[x].live /\ as[x].h.ptr = m}
       |-> st[n]]

NoArray == [live |-> FALSE, safe |-> FALSE, h |-> Hdr(0, 0, 0, 0)]

\* panic: the call did not return; held: s.mu is still locked after the call;
\* ret: the result that comes with ok, for the calls that have one
ALog(n, x, op, ok) ==
    [n |-> n, x |-> x, op |-> op, ok |-> ok, panic |-> FALSE, held |-> FALSE,
     ret |-> <<>>]

ArrayIdle ==
    /\ store = (0 :> <<>>)
    /\ arrs = <<NoArray, NoArray>>
    /\ alog = ALog(0, 0, "", TRUE)

\* New(safe...): data: make([]V, 0)
ArrayInit ==
    /\ store = (0 :> <<>>)
    /\ \E sf \in BOOLEAN : arrs = <<[NoArray EXCEPT !.live = TRUE, !.safe = sf], NoArray>>
    /\ alog = ALog(0, 0, "", TRUE)

ArrayFrame == UNCHANGED <<cloneVars, atomicVars, lockVars, mapVars>>

\* the call op on array x ends with s.data = h over the cells st
Becomes(x, op, ok, st, h) ==
    /\ arrs[x].live /\ alog.n < MaxArrayCalls
    /\ arrs' = [arrs EXCEPT ![x].h = h]
    /\ store' = Collect(st, [arrs EXCEPT ![x].h = h])
    /\ alog' = ALog(alog.n + 1, x, op, ok)
    /\ ArrayFrame

\* the call op on array x returns (ret, ok) and ends with s.data = h over st
Returns(x, op, ok, st, h, ret) ==
    /\ arrs[x].live /\ alog.n < MaxArrayCalls
    /\ arrs' = [arrs EXCEPT ![x].h = h]
    /\ store' = Collect(st, [arrs EXCEPT ![x].h = h])
    /\ alog' = [ALog(alog.n + 1, x, op, ok) EXCEPT !.ret = <<ret>>]
    /\ ArrayFrame

\* the call op on array x panics at an access to s.data: nothing is stored
\* and the deferred s.mu.Unlock() runs while the panic unwinds
Panics(x, op) ==
    /\ arrs[x].live /\ alog.n < MaxArrayCalls
    /\ alog' = [ALog(alog.n + 1, x, op, FALSE) EXCEPT !.panic = TRUE]
    /\ UNCHANGED <<store, arrs>>
    /\ ArrayFrame

\* s.data = append(s.data, item)
ArrayPush(x, item) ==
    /\ arrs[x].live
    /\ \E extra \in {0, 1} :
          LET r == AppendTo(store, arrs[x].h, <<item>>, extra)
          IN Becomes(x, "Push", TRUE, r.st, r.h)

\* s.data[index] = element; an index out of range panics
ArraySet(x, index, element) ==
    LET h == arrs[x].h IN
    IF index < 0 \/ index >= h.len
    THEN Panics(x, "Set")
    ELSE Becomes(x, "Set", TRUE,
                 [store EXCEPT ![h.ptr][h.off + index + 1] = element], h)

\* Insert with rear := s.data[index:], a view of the cells the first append
\* writes to, in place of a copy of them
ArrayInsertView(x, index, elements) ==
    LET h == arrs[x].h IN
    IF index < 0 \/ index >= h.len
    THEN Becomes(x, "Insert", FALSE, store, h)
    ELSE \E extra \in {0, 1} :
            LET r1   == AppendTo(store, [h EXCEPT !.len = index], elements, extra)
                rear == SubSeq(Elems(r1.st, h), index + 1, h.len)
                r2   == AppendTo(r1.st, r1.h, rear, extra)
            IN Becomes(x, "Insert", TRUE, r2.st, r2.h)

\* if index < 0 || index >= len(s.data) { return error }
\* rear := append([]V{}, s.data[index:]...)
\* s.data = append(s.data[0:index], elements...); s.data = append(s.data, rear...)
ArrayInsert(x, index, elements) ==
    LET h == arrs[x].h IN
    IF index < 0 \/ index >= h.len
    THEN Becomes(x, "Insert", FALSE, store, h)
    ELSE \E extra \in {0, 1} :
            LET rear == SubSeq(Elems(store, h), index + 1, h.len)
                r1   == AppendTo(store, [h EXCEPT !.len = index], elements, extra)
                r2   == AppendTo(r1.st, r1.h, rear, extra)
            IN Becomes(x, "Insert", TRUE, r2.st, r2.h)

\* if index < 0 || index >= len(s.data) { return }; return s.data[index], true
ArrayGet(x, index) ==
    /\ arrs[x].live
    /\ LET h == arrs[x].h
       IN Becomes(x, "Get", index >= 0 /\ index < h.len, store, h)

\* remove with append(s.data[:index], s.data[index:]...) for an inner element:
\* the element stays where it is
removeKeep(st, h, index) ==
    IF index < 0 \/ index >= h.len THEN [st |-> st, h |-> h, v |-> 0, ok |-> FALSE]
    ELSE LET value == Elems(st, h)[index + 1] IN
         IF index = 0
         THEN [st |-> st, h |-> Hdr(h.ptr, h.off + 1, h.len - 1, h.cap - 1),
               v |-> value, ok |-> TRUE]
         ELSE IF index = h.len - 1
         THEN [st |-> st, h |-> [h EXCEPT !.len = index], v |-> value, ok |-> TRUE]
         ELSE LET r == AppendTo(st, [h EXCEPT !.len = index],
                                SubSeq(Elems(st, h), index + 1, h.len), 0)
              IN [st |-> r.st, h |-> r.h, v |-> value, ok |-> TRUE]

\* remove(index): the first and the last element are cut off by reslicing,
\* an inner one by append(s.data[:index], s.data[index+1:]...)
remove(st, h, index) ==
    IF index < 0 \/ index >= h.len THEN [st |-> st, h |-> h, v |-> 0, ok |-> FALSE]
    ELSE LET value == Elems(st, h)[index + 1] IN
         IF index = 0
         THEN [st |-> st, h |-> Hdr(h.ptr, h.off + 1, h.len - 1, h.cap - 1),
               v |-> value, ok |-> TRUE]
         ELSE IF index = h.len - 1
         THEN [st |-> st, h |-> [h EXCEPT !.len = index], v |-> value, ok |-> TRUE]
         ELSE LET r == AppendTo(st, [h EXCEPT !.len = index],
                                SubSeq(Elems(st, h), index + 2, h.len), 0)
              IN [st |-> r.st, h |-> r.h, v |-> value, ok |-> TRUE]

\* return s.remove(index)
ArrayRemove(x, index) ==
    /\ arrs[x].live
    /\ LET r == remove(store, arrs[x].h, index)
       IN Returns(x, "Remove", r.ok, r.st, r.h, r.v)

\* the index of the first datum with reflect.DeepEqual(datum, value), or -1
search(xs, value) ==
    IF \E i \in DOMAIN xs : xs[i] = value
    THEN (CHOOSE i \in DOMAIN xs : xs[i] = value /\ \A j \in 1..(i - 1) : xs[j] # value) - 1
    ELSE -1

\* index := s.search(value); _, ok := s.remove(index); return index, ok
ArrayRemoveValue(x, value) ==
    /\ arrs[x].live
    /\ LET index == search(Elems(store, arrs[x].h), value)
           r     == remove(store, arrs[x].h, index)
       IN Returns(x, "RemoveValue", r.ok, r.st, r.h, index)

\* s.data[i], s.data[j] = s.data[j], s.data[i] from both ends inwards
ArrayReverse(x) ==
    /\ arrs[x].live
    /\ LET h  == arrs[x].h
           xs == Elems(store, h)
       IN Becomes(x, "Reverse", TRUE,
                  CopyInto(store, h, [i \in 1..h.len |-> xs[h.len + 1 - i]]), h)

RECURSIVE Distinct(_)
\* the first occurrence of every element, in order
Distinct(xs) ==
    IF xs = <<>> THEN <<>>
    ELSE LET front == SubSeq(xs, 1, Len(xs) - 1)
             last  == xs[Len(xs)]
         IN IF \E i \in DOMAIN front : front[i] = last
            THEN Distinct(front) ELSE Append(Distinct(front), last)

\* uniqueArray = make([]V, 0, len(s.data)); ...; s.data = uniqueArray
ArrayUnique(x) ==
    LET h == arrs[x].h IN
    IF h.len = 0 THEN Becomes(x, "Unique", TRUE, store, h)
    ELSE LET m == MakeSlice(store, 0, h.len)
             r == AppendTo(m.st, m.h, Distinct(Elems(store, h)), 0)
         IN Becomes(x, "Unique", TRUE, r.st, r.h)

\* if len(s.data) > 0 { s.data = make([]V, 0) }
ArrayClear(x) ==
    LET h == arrs[x].h IN
    IF h.len > 0 THEN Becomes(x, "Clear", TRUE, store, Hdr(0, 0, 0, 0))
    ELSE Becomes(x, "Clear", TRUE, store, h)

\* the clone works on the cells of the original
copyNone(st, h) == [st |-> st, h |-> h]

\* array := make([]V, len(s.data)); copy(array, s.data)
copyData(st, h) ==
    LET m == MakeSlice(st, h.len, h.len)
    IN [st |-> CopyInto(m.st, m.h, Elems(st, h)), h |-> m.h]

\* NewFromSlice(array, s.mu.IsSafe())
ArrayClone ==
    LET r == copyData(store, arrs[1].h) IN
    /\ arrs[1].live /\ ~arrs[2].live /\ alog.n < MaxArrayCalls
    /\ arrs' = [arrs EXCEPT ![2] = [live |-> TRUE, safe |-> arrs[1].safe, h |-> r.h]]
    /\ store' = r.st
    /\ alog' = ALog(alog.n + 1, 1, "Clone", TRUE)
    /\ ArrayFrame

ArrayNext ==
    \/ ArrayClone
    \/ \E x \in {1, 2} :
          \/ \E v \in AVals : ArrayPush(x, v)
          \/ \E i \in AIdx, v \in AVals : ArraySet(x, i, v) \/ ArrayInsert(x, i, <<v>>)
          \/ \E i \in AIdx : ArrayRemove(x, i)
          \/ ArrayReverse(x) \/ ArrayUnique(x) \/ ArrayClear(x)

\* one array, called with indices inside and outside of it
IIdx   == -1..3
IElems == {<<>>, <<1>>, <<2, 1>>}

IndexNext ==
    \/ \E v \in AVals : ArrayPush(1, v)
    \/ \E i \in IIdx : ArrayGet(1, i)
    \/ \E i \in IIdx, v \in AVals : ArraySet(1, i, v)
    \/ \E i \in IIdx, es \in IElems : ArrayInsert(1, i, es)
    \/ \E i \in IIdx : ArrayRemove(1, i)
    \/ \E v \in AVals : ArrayRemoveValue(1, v)

(* ----------------------------------------------------------------------- *)
(* Specifications                                                          *)
(* ----------------------------------------------------------------------- *)
Init == CloneInit /\ AtomicInit /\ LockIdle /\ MapIdle /\ ArrayIdle

Next == CloneNext

Spec == Init /\ [][Next]_vars

\* the same entry points on the first n graphs of GraphFixtures
GraphInit(n) ==
    /\ fx \in (Len(BaseFixtures) + 1)..(Len(BaseFixtures) + n)
    /\ heap = Fixtures[fx].heap
    /\ cl = [p \in Procs |-> Idle]
    /\ ptrs = [p \in Procs |-> NewTable]
    /\ entry = [p \in Procs |-> NoEntry]
    /\ result = [p \in Procs |-> NoResult]

GraphStart ==
    GraphInit(Len(GraphFixtures)) /\ AtomicInit /\ LockIdle /\ MapIdle /\ ArrayIdle

GraphSpec == GraphStart /\ [][Next]_vars

TableStart ==
    GraphInit(Len(TableFixtures)) /\ AtomicInit /\ LockIdle /\ MapIdle /\ ArrayIdle

TableSpec == TableStart /\ [][Next]_vars

\* the same entry points on the graphs of RebuildFixtures
RebuildInit ==
    /\ fx \in (Len(BaseFixtures) + Len(GraphFixtures) + 1)..Len(Fixtures)
    /\ heap = Fixtures[fx].heap
    /\ cl = [p \in Procs |-> Idle]
    /\ ptrs = [p \in Procs |-> NewTable]
    /\ entry = [p \in Procs |-> NoEntry]
    /\ result = [p \in Procs |-> NoResult]

RebuildStart == RebuildInit /\ AtomicInit /\ LockIdle /\ MapIdle /\ ArrayIdle

RebuildSpec == RebuildStart /\ [][Next]_vars

\* goroutines on a shared array and map; everything else stays idle
LockStart == CloneInit /\ fx = 1 /\ AtomicInit /\ LockInit /\ MapIdle /\ ArrayIdle

LockSpec == LockStart /\ [][LockNext]_vars

\* one map, from New on
MapStart == Init /\ fx = 1

MapSpec == MapStart /\ [][MapNext]_vars

\* one array, from New on, and its clone
ArrayStart == CloneInit /\ fx = 1 /\ AtomicInit /\ LockIdle /\ MapIdle /\ ArrayInit

ArraySpec == ArrayStart /\ [][ArrayNext]_vars

IndexSpec == ArrayStart /\ [][IndexNext]_vars

\* the Value of one program run: the cloner stays idle on the first fixture
AtomicStart == Init /\ fx = 1

AtomicSpec == AtomicStart /\ [][AtomicNext]_vars

TypeOK == \A p \in Procs : cl[p].mode \in {"idle", "call", "ret", "done", "panic", "overflow"}

(* ----------------------------------------------------------------------- *)
(* Reachability in the heap                                                *)
(* ----------------------------------------------------------------------- *)
RECURSIVE Refs(_)
\* the objects a value refers to directly (callables and channels excepted)
Refs(v) ==
    IF v.t = "backing" THEN UNION {Refs(v.x[i]) : i \in DOMAIN v.x}
    ELSE IF v.t = "hmap" THEN UNION {Refs(e.k) \cup Refs(e.v) : e \in v.x}
    ELSE LET k == Kind(v.t) IN
         CASE k = "Ptr"   -> IF v.x = <<>> THEN {} ELSE {v.x[1].obj}
           [] k = "Slice" -> IF v.x = <<>> THEN {} ELSE {v.x[1].obj}
           [] k = "Map"   -> IF v.x = <<>> THEN {} ELSE {v.x[1]}
           [] k = "Interface" -> IF v.x = <<>> THEN {} ELSE Refs(v.x[1])
           [] k \in {"Struct", "Array"} -> UNION {Refs(v.x[i]) : i \in DOMAIN v.x}
           [] OTHER -> {}

RECURSIVE Close(_, _)
Close(h, S) ==
    LET N == S \cup UNION {Refs(h[o]) : o \in S}
    IN IF N = S THEN S ELSE Close(h, N)

\* every storage location reachable from a value
Reach(h, v) == Close(h, Refs(v))

Done(p)  == cl[p].mode = "done"
SrcOf(p) == entry[p].src.x[1]

(* ----------------------------------------------------------------------- *)
(* C1  Identity independence: no storage reachable from the clone a call   *)
(* returned is reachable from its source, so a write through one is never  *)
(* seen through the other.                                                 *)
(* ----------------------------------------------------------------------- *)
C1_IdentityIndependence ==
    \A p \in Procs :
        Done(p) /\ entry[p].src.x # <<>> =>
            Reach(heap, result[p]) \cap Reach(heap, SrcOf(p)) = {}

\* a finished clone of the slice of pointers to one map: sequence, indirection and map
C1_Witness ==
    \E p \in Procs :
        /\ Done(p) /\ fx = 7
        /\ Cardinality(Reach(heap, result[p])) >= 3
        /\ Cardinality(Reach(heap, SrcOf(p))) >= 3

(* ----------------------------------------------------------------------- *)
(* C2  Sharing preservation: two equal non-nil pointers in the source      *)
(* sequence come back as two equal pointers to new storage, whatever the   *)
(* pointee is.                                                             *)
(* ----------------------------------------------------------------------- *)
PtrSlice(v) == /\ Kind(v.t) = "Slice" /\ v.x # <<>>
               /\ Kind(TypeInfo[v.t].elem) = "Ptr"

C2_SharingPreserved ==
    \A p \in Procs :
        Done(p) /\ entry[p].src.x # <<>> /\ PtrSlice(result[p]) =>
            LET s == heap[SrcOf(p).x[1].obj].x
                c == heap[result[p].x[1].obj].x
            IN \A i, j \in DOMAIN s :
                  s[i].x # <<>> /\ s[i] = s[j] =>
                     c[i] = c[j] /\ c[i].x # <<>> /\ c[i].x[1].obj.own # 0

(* ----------------------------------------------------------------------- *)
(* C3  Cycle termination: DeepClone of a pointer to a self-referential     *)
(* record, or to one of a mutually referential pair, finishes - it neither *)
(* panics nor exhausts the stack, always has a next step until it is done  *)
(* and is done within CycleSteps steps - and the Next of the clone leads   *)
(* back to the clone itself (through the clone of the partner for the      *)
(* pair), never to a source record and never to nil.                       *)
(* ----------------------------------------------------------------------- *)
Cyclic(p) == fx \in {3, 4} /\ entry[p].fn = "DeepClone" /\ entry[p].T = "*Node"

NextOf(h, ptr) == ReadAt(h, ptr.x[1]).x[2]

CycleTopology(p) ==
    LET r == result[p] IN
    /\ r.x # <<>> /\ r.x[1].obj.own = p
    /\ IF fx = 3
       THEN NextOf(heap, r) = r
       ELSE /\ NextOf(heap, r).x # <<>>
            /\ NextOf(heap, r) # r
            /\ NextOf(heap, r).x[1].obj.own = p
            /\ NextOf(heap, NextOf(heap, r)) = r

\* steps within which the clone of either cyclic graph is finished
CycleSteps == 20

C3_CycleTermination ==
    \A p \in Procs :
        Cyclic(p) =>
            /\ cl[p].mode \notin {"panic", "overflow"}
            /\ cl[p].steps <= CycleSteps
            /\ cl[p].mode \in {"call", "ret"} => ENABLED Step(p)
            /\ Done(p) => CycleTopology(p)

C3_Witness == \E p \in Procs : Cyclic(p) /\ Done(p) /\ fx = 4

(* ----------------------------------------------------------------------- *)
(* C4  Shape-mismatch degradation: CloneSlice, CloneMap and CloneStruct    *)
(* handed an input of another shape, or the untyped nil, return the zero   *)
(* value of T and do not panic.                                            *)
(* ----------------------------------------------------------------------- *)
SrcKind(e) == IF e.src.x = <<>> THEN "Invalid" ELSE Kind(e.src.x[1].t)

Mismatch(e) ==
    \/ e.fn = "CloneSlice"  /\ SrcKind(e) \notin {"Slice", "Array"}
    \/ e.fn = "CloneMap"    /\ SrcKind(e) # "Map"
    \/ e.fn = "CloneStruct" /\ SrcKind(e) \notin {"Struct", "Ptr"}

C4_MismatchGivesZero ==
    \A p \in Procs :
        Mismatch(entry[p]) =>
            /\ cl[p].mode # "panic"
            /\ Done(p) => result[p] = ZeroVal(entry[p].T)

(* ----------------------------------------------------------------------- *)
(* C5  Best effort: the traversal DeepClone starts never panics, whatever   *)
(* finite acyclic value it is handed (arrays, channels, boxed nils as map  *)
(* key or pointee).                                                        *)
(* ----------------------------------------------------------------------- *)
C5_DeepCloneNeverPanics ==
    \A p \in Procs :
        entry[p].fn = "DeepClone" =>
            ~(cl[p].mode = "panic" /\ cl[p].why # "type assertion")

(* ----------------------------------------------------------------------- *)
(* C6  Null propagation: a nil pointer - as the DeepClone input, a field,  *)
(* a slice element or a map value - is cloned to the nil pointer of the    *)
(* same type: clonePtr returns that valid nil and allocates nothing.       *)
(* ----------------------------------------------------------------------- *)
IsNilPtr(v) == Kind(v.t) = "Ptr" /\ v.x = <<>>

\* wherever the source holds a nil pointer, the clone holds the same nil pointer
NullKept(h, s, c) ==
    LET k == Kind(s.t) IN
    CASE k = "Ptr"    -> IsNilPtr(s) => c = s
      [] k = "Struct" -> \A i \in DOMAIN s.x :
                            CanSet(s.t, i) /\ IsNilPtr(s.x[i]) => c.x[i] = s.x[i]
      [] k = "Slice"  -> s.x # <<>> =>
                            \A i \in 1..s.x[1].len :
                               IsNilPtr(h[s.x[1].obj].x[i]) =>
                                  h[c.x[1].obj].x[i] = h[s.x[1].obj].x[i]
      [] k = "Map"    -> s.x # <<>> =>
                            \A e \in h[s.x[1]].x :
                               IsNilPtr(e.v) => e \in h[c.x[1]].x
      [] OTHER        -> TRUE

NullResult ==
    \A p \in Procs :
        /\ entry[p].fn = "DeepClone" /\ entry[p].src.x # <<>> /\ IsNilPtr(SrcOf(p))
              => cl[p].mode \notin {"panic", "overflow"}
        /\ Done(p) /\ entry[p].fn = "DeepClone" /\ entry[p].src.x # <<>>
              => NullKept(heap, SrcOf(p), result[p])

NullStep ==
    \A p \in Procs :
        Calling(p, "clonePtr") /\ IsNil(heap, cl[p].v) /\ cl'[p] # cl[p] =>
            /\ cl'[p].mode = "ret"
            /\ cl'[p].v = Temp(Nil(cl[p].v.t))
            /\ heap' = heap

C6_NullPropagation == []NullResult /\ [][NullStep]_vars

\* the clone of []*int{&x, &x, nil} is there and its last element is nil
C6_Witness ==
    \E p \in Procs :
        /\ Done(p) /\ fx = 5 /\ result[p].x # <<>>
        /\ heap[result[p].x[1].obj].x[3] = Nil("*int")

(* ----------------------------------------------------------------------- *)
(* C7  Scalar fidelity: DeepClone of an integer of any width and sign,     *)
(* also of a declared type based on one, returns the same type and number. *)
(* ----------------------------------------------------------------------- *)
ScalarCall(p) ==
    /\ entry[p].fn = "DeepClone" /\ entry[p].src.x # <<>>
    /\ Kind(SrcOf(p).t) \in IntKinds \cup UintKinds
    /\ entry[p].T = SrcOf(p).t

C7_ScalarFidelity ==
    \A p \in Procs :
        ScalarCall(p) =>
            /\ cl[p].mode # "panic"
            /\ Done(p) => result[p] = SrcOf(p)

(* ----------------------------------------------------------------------- *)
(* C8  CloneStruct accepts a record by value and a non-nil pointer to a    *)
(* record: it returns the clone (not the zero value) and does not panic.   *)
(* ----------------------------------------------------------------------- *)
StructCall(p) ==
    /\ entry[p].fn = "CloneStruct" /\ entry[p].src.x # <<>>
    /\ \/ Kind(SrcOf(p).t) = "Struct"
       \/ /\ Kind(SrcOf(p).t) = "Ptr" /\ SrcOf(p).x # <<>>
          /\ Kind(TypeInfo[SrcOf(p).t].elem) = "Struct"

C8_CloneStructBothShapes ==
    \A p \in Procs :
        StructCall(p) =>
            /\ cl[p].mode # "panic"
            /\ Done(p) => result[p] # ZeroVal(entry[p].T)

(* ----------------------------------------------------------------------- *)
(* C9  Per-call visited-table: a step of one caller changes neither the    *)
(* control state, the visited-table nor the storage of another caller (nor *)
(* the source), every pointer a table records is storage of its own call,  *)
(* two finished calls share no clone storage, and two calls of the same    *)
(* entry point on the same input return the same value up to addresses.    *)
(* ----------------------------------------------------------------------- *)
\* how deep two results are compared
UnfoldDepth == 4

RECURSIVE Unfold(_, _, _)
\* a value with every reference replaced by what it refers to
Unfold(h, v, d) ==
    IF d = 0 THEN <<"...">>
    ELSE IF v.t = "backing" THEN <<"arr", [i \in DOMAIN v.x |-> Unfold(h, v.x[i], d)]>>
    ELSE IF v.t = "hmap" THEN <<"hmap", {<<Unfold(h, e.k, d), Unfold(h, e.v, d)>> : e \in v.x}>>
    ELSE LET k == Kind(v.t) IN
         CASE k \in ScalarKinds -> <<v.t, v.x>>
           [] v.x = <<>> -> <<v.t, <<"nil">>>>
           [] k = "Ptr" /\ v.x # <<>> -> <<v.t, Unfold(h, ReadAt(h, v.x[1]), d - 1)>>
           [] k = "Slice" /\ v.x # <<>> -> <<v.t, Unfold(h, h[v.x[1].obj], d - 1)>>
           [] k = "Map" /\ v.x # <<>> -> <<v.t, Unfold(h, h[v.x[1]], d - 1)>>
           [] k = "Interface" /\ v.x # <<>> -> <<v.t, Unfold(h, v.x[1], d)>>
           [] k \in {"Struct", "Array"} /\ v.x # <<>> ->
                <<v.t, [i \in DOMAIN v.x |-> Unfold(h, v.x[i], d)]>>
           [] OTHER -> <<v.t, v.x>>

TablesLocal ==
    \A p \in Procs : \A k \in DOMAIN ptrs[p] : ptrs[p][k].x[1].obj.own = p

ResultsApart ==
    \A p, q \in Procs :
        p # q /\ Done(p) /\ Done(q) =>
            /\ Reach(heap, result[p]) \cap Reach(heap, result[q]) = {}
            /\ entry[p] = entry[q] =>
                  Unfold(heap, result[p], UnfoldDepth) = Unfold(heap, result[q], UnfoldDepth)

NoInterference ==
    \A p \in Procs :
        cl'[p] = cl[p] =>
            /\ ptrs'[p] = ptrs[p]
            /\ \A o \in DOMAIN heap : o.own \in {0, p} => heap'[o] = heap[o]
            /\ \A o \in DOMAIN heap' \ DOMAIN heap : o.own # p

C9_PerCallTable == [](TablesLocal /\ ResultsApart) /\ [][NoInterference]_vars

\* both callers finished DeepClone of the same self-referential record
C9_Witness ==
    /\ fx = 3 /\ \A p \in Procs : Done(p) /\ entry[p].T = "*Node"
    /\ ptrs[1] # NewTable /\ ptrs[2] # NewTable

(* ----------------------------------------------------------------------- *)
(* C10  Swap is atomic: once no Swap is under way, every value handed to   *)
(* Store or Swap is the content of the cell, or was overwritten by a       *)
(* Store, or was returned as old by exactly one Swap - never by two, and   *)
(* never by none.                                                          *)
(* ----------------------------------------------------------------------- *)
Quiet == \A t \in Threads : th[t].pc # "swapLoaded"

C10_SwapAtomic ==
    /\ \A v \in 1..MaxStores : olds[v] <= 1
    /\ Quiet => \A v \in stored : cell = <<v>> \/ olds[v] = 1 \/ v \in gone

(* ----------------------------------------------------------------------- *)
(* C11  Safe-mode mutual exclusion: for an Array or Map created with       *)
(* safe=true, no goroutine is at s.data of a container while a write       *)
(* operation of another goroutine is at it; when every call has returned   *)
(* the array has grown by exactly the completed Pushes (less the elements  *)
(* Remove returned) and every pushed element is in it or was returned by   *)
(* a Remove.  With safe=false the sync.RWMutex is never touched.           *)
(* ----------------------------------------------------------------------- *)
InData(g) == gr[g].pc \in {"body", "write", "len", "elem"}

Conflict(g, h) ==
    /\ g # h /\ InData(g) /\ InData(h)
    /\ ContainerOf(gr[g].op) = ContainerOf(gr[h].op)
    /\ gr[g].op \in WriteOps \/ gr[h].op \in WriteOps

Returned(op) == {g \in Threads : gr[g].op = op /\ gr[g].pc = "done"}

Removed == {g \in Returned("Remove") : gr[g].ret # <<>>}

Exclusion == \A g, h \in Threads : ~Conflict(g, h)

NoLostUpdate ==
    (\A g \in Threads : gr[g].pc \in {"idle", "done"}) =>
        /\ Len(adata) = 1 + Cardinality(Returned("Push")) - Cardinality(Removed)
        /\ \A g \in Returned("Push") :
              \/ \E i \in DOMAIN adata : adata[i] = g
              \/ \E h \in Removed : gr[h].ret = <<g>>

C11_SafeModeExclusion ==
    /\ safe => Exclusion /\ NoLostUpdate
    /\ ~safe => mu = MuFree

(* ----------------------------------------------------------------------- *)
(* C12  smap.Map refines a plain key-value map: after any sequence of Set, *)
(* Del and DeleteWith calls from New on, Get(k) returns (v, true) for the  *)
(* v of the latest Set(k, v) that no deletion of k followed, and (zero,    *)
(* false) otherwise; Set(k, _) and Del(k) change the entry of no other     *)
(* key; Get, Filter, CopyMap and Iterator change nothing.                  *)
(* ----------------------------------------------------------------------- *)
RECURSIVE Latest(_, _)
\* what the calls h leave under key k: <<v>> or <<>>, read off the calls alone
Latest(h, k) ==
    IF h = <<>> THEN <<>>
    ELSE LET c      == h[Len(h)]
             before == Latest(SubSeq(h, 1, Len(h) - 1), k)
         IN CASE c.op = "Set" /\ c.k = k -> <<c.v>>
              [] c.op = "Del" /\ c.k = k -> <<>>
              [] c.op = "DeleteWith" /\ before # <<>> -> 
                    IF Holds(c.f, k, before[1]) THEN <<>> ELSE before
              [] OTHER -> before

LastCall == hist[Len(hist)]

GetRight ==
    hist # <<>> /\ LastCall.op = "Get" =>
        got = IF Latest(hist, LastCall.k) = <<>> THEN <<0, FALSE>>
              ELSE <<Latest(hist, LastCall.k)[1], TRUE>>

EntryOf(m, k) == IF k \in DOMAIN m THEN <<m[k]>> ELSE <<>>

MapStep ==
    LET c == hist'[Len(hist')] IN
    /\ c.op \in {"Set", "Del"} =>
          \A k \in MKeys \ {c.k} : EntryOf(mdata', k) = EntryOf(mdata, k)
    /\ c.op \in {"Get", "Filter", "CopyMap", "Iterator"} => mdata' = mdata

C12_MapRefinement == []GetRight /\ [][MapStep]_vars

\* Set(k, v), a DeleteWith that removes k, then Get(k) returning (0, false)
C12_Witness ==
    /\ Len(hist) = 3
    /\ hist[1].op = "Set" /\ hist[2].op = "DeleteWith" /\ hist[3].op = "Get"
    /\ hist[3].k = hist[1].k /\ got = <<0, FALSE>>

(* ----------------------------------------------------------------------- *)
(* C13  Array.Clone returns a new array with the same elements in the same *)
(* order and the same safe flag, over cells of its own: after Clone, a     *)
(* Push, Set, Insert, Remove, Reverse, Unique or Clear on one of the two   *)
(* arrays leaves the contents of the other unchanged.                      *)
(* ----------------------------------------------------------------------- *)
ContentsOf(st, as, x) == Elems(st, as[x].h)

\* the two arrays never look at the same backing array
Apart == arrs[2].live => arrs[1].h.ptr # arrs[2].h.ptr \/ arrs[2].h.ptr = 0

CloneStep ==
    alog'.op = "Clone" /\ alog'.n # alog.n =>
        /\ ContentsOf(store', arrs', 2) = ContentsOf(store, arrs, 1)
        /\ ContentsOf(store', arrs', 1) = ContentsOf(store, arrs, 1)
        /\ arrs'[2].safe = arrs[1].safe

OtherKept ==
    arrs[2].live /\ alog'.n # alog.n =>
        ContentsOf(store', arrs', 3 - alog'.x) = ContentsOf(store, arrs, 3 - alog'.x)

C13_CloneIndependent == []Apart /\ [][CloneStep /\ OtherKept]_vars

\* after Clone of an array of two or more elements, a Set or Reverse that
\* changed one of the two: they differ now, in both safe modes
C13_Witness ==
    /\ arrs[2].live /\ alog.op \in {"Set", "Reverse"} /\ alog.ok
    /\ arrs[1].h.len >= 2 /\ arrs[2].h.len >= 2
    /\ ContentsOf(store, arrs, 1) # ContentsOf(store, arrs, 2)

(* ----------------------------------------------------------------------- *)
(* C14  Map clone with widening: the map {"a": 1, "b": 2} of 32-bit values *)
(* cloned for a destination of type map[string]int64 comes back, without   *)
(* a panic, as a map[string]int64 holding a -> 1 and b -> 2.               *)
(* ----------------------------------------------------------------------- *)
WidenCall(p) ==
    /\ entry[p].src.x # <<>> /\ SrcOf(p).t = "map[string]int32"
    /\ entry[p].T \in {"any", "map[string]int64"}

\* what the caller holds once a boxed result is opened
Unboxed(v) == IF Kind(v.t) = "Interface" /\ v.x # <<>> THEN v.x[1] ELSE v

Widened(h, v) ==
    /\ v.t = "map[string]int64" /\ v.x # <<>>
    /\ h[v.x[1]].x = {KV(Str("a"), V("int64", 1)), KV(Str("b"), V("int64", 2))}

C14_MapWidening ==
    \A p \in Procs :
        WidenCall(p) =>
            /\ cl[p].mode # "panic"
            /\ Done(p) => Widened(heap, Unboxed(result[p]))

(* ----------------------------------------------------------------------- *)
(* C15  Visited-table invariant: within one call, an entry of the          *)
(* visited-table, once written, stays and keeps the clone it records, and  *)
(* a source location that is already recorded is never descended into      *)
(* again: cloneStruct is not called on it a second time.                   *)
(* ----------------------------------------------------------------------- *)
NeverReplaced ==
    \A p \in Procs :
        \A k \in DOMAIN ptrs[p] :
            k \in DOMAIN ptrs'[p] /\ ptrs'[p][k] = ptrs[p][k]

Redescent(p) ==
    /\ Calling(p, "cloneStruct") /\ cl[p].v.valid /\ cl[p].v.canAddr
    /\ Visited(ptrs[p], PtrTo(cl[p].v.t), UnsafeAddr(heap, cl[p].v.addr))

C15_VisitedTableInvariant ==
    /\ [](\A p \in Procs : ~Redescent(p))
    /\ [][NeverReplaced]_vars

(* ----------------------------------------------------------------------- *)
(* C16  DeepClone terminates on every finite source graph, also on one     *)
(* whose cycle passes through no pointer to a record (a map holding        *)
(* itself, a []any holding itself, a *any holding itself): the call never  *)
(* exhausts the stack, and it never calls a function on a value that an    *)
(* active call of the same function is already working on with the same    *)
(* visited-table.                                                          *)
(* ----------------------------------------------------------------------- *)
\* the call under way repeats an active one: nothing was recorded since, so
\* it unfolds exactly as the active one did, down to the same call again
Recurs(p) ==
    /\ cl[p].mode = "call" /\ ptrs[p] = NewTable
    /\ \E i \in DOMAIN cl[p].stack :
          /\ cl[p].stack[i].fn = cl[p].fn
          /\ cl[p].stack[i].v = cl[p].v

C16_TerminatesOnLoops ==
    \A p \in Procs :
        entry[p].fn = "DeepClone" =>
            /\ cl[p].mode # "overflow"
            /\ ~Recurs(p)

(* ----------------------------------------------------------------------- *)
(* C17  Aliasing into by-value storage: a source pointer to a record that  *)
(* is stored by value in a cloned container - element 0 of a slice, or the *)
(* field Inner of the record a pointer leads to - comes back as a pointer  *)
(* to that same slot of the cloned container, so a write through it shows  *)
(* in the cloned container.                                                *)
(* ----------------------------------------------------------------------- *)
AliasCall(p) == entry[p].fn = "DeepClone" /\ entry[p].T \in {"PS", "SP", "*Wrap"}

\* the pointer of the clone that corresponds to the aliasing source pointer
ClonedAlias(p) ==
    CASE entry[p].T = "PS" -> result[p].x[1]
      [] entry[p].T = "SP" -> result[p].x[2]
      [] OTHER             -> ReadAt(heap, result[p].x[1]).x[2]

\* the by-value slot of the cloned container the source pointer's target became
ClonedSlot(p) ==
    CASE entry[p].T = "PS" -> At(result[p].x[2].x[1].obj, <<1>>)
      [] entry[p].T = "SP" -> At(result[p].x[1].x[1].obj, <<1>>)
      [] OTHER             -> At(result[p].x[1].obj, <<1>>)

C17_AliasIntoSlot ==
    \A p \in Procs :
        AliasCall(p) /\ Done(p) => ClonedAlias(p).x = <<ClonedSlot(p)>>

(* ----------------------------------------------------------------------- *)
(* C18  Registration order: the step in which cloneStruct starts on an     *)
(* addressable record stores (type, address) -> new instance in the        *)
(* visited-table, before any field is cloned; while its fields are being   *)
(* cloned the entry leads to that instance; and a clonePtr that finds the  *)
(* address recorded, on entry or after its pointee was cloned, returns the *)
(* recorded pointer and allocates nothing.                                 *)
(* ----------------------------------------------------------------------- *)
StructKey(h, v) == Key(PtrTo(v.t), UnsafeAddr(h, v.addr))

RegisteredFirst ==
    \A p \in Procs :
        LET v == cl[p].v IN
        Calling(p, "cloneStruct") /\ KindOf(v) = "Struct" /\ v.canAddr
        /\ cl'[p] # cl[p] =>
            /\ StructKey(heap, v) \in DOMAIN ptrs'[p]
            /\ ptrs'[p][StructKey(heap, v)] = PtrV(PtrTo(v.t), At(Fresh(heap, p), <<>>))
            /\ cl'[p].mode = "call" => Top(cl'[p]).i = 0 /\ Top(cl'[p]).obj = Fresh(heap, p)

\* the frames of cloneStruct at work on the storage the key k stands for
FramesOn(p, k) ==
    {i \in DOMAIN cl[p].stack :
        /\ cl[p].stack[i].fn = "cloneStruct" /\ cl[p].stack[i].v.canAddr
        /\ StructKey(heap, cl[p].stack[i].v) = k}

Largest(S) == CHOOSE i \in S : \A j \in S : j <= i

RecordedWhileCloning ==
    \A p \in Procs :
        \A i \in DOMAIN cl[p].stack :
            LET fr == cl[p].stack[i] IN
            fr.fn = "cloneStruct" /\ fr.v.canAddr =>
                LET k == StructKey(heap, fr.v) IN
                /\ k \in DOMAIN ptrs[p]
                /\ ptrs[p][k] = PtrV(k.t, At(cl[p].stack[Largest(FramesOn(p, k))].obj, <<>>))

LookupHits ==
    \A p \in Procs :
        LET v == IF Calling(p, "clonePtr") THEN cl[p].v ELSE Top(cl[p]).v
            e == Elem(heap, v)
            k == Key(v.t, UnsafeAddr(heap, e.addr))
        IN /\ \/ Calling(p, "clonePtr") /\ ~IsNil(heap, cl[p].v)
              \/ Resuming(p, "clonePtr")
           /\ e.canAddr /\ k \in DOMAIN ptrs[p]
           /\ cl'[p] # cl[p]
           => /\ cl'[p].mode = "ret"
              /\ cl'[p].v.val = ptrs[p][k]
              /\ heap' = heap

C18_RegistrationOrder ==
    /\ []RecordedWhileCloning
    /\ [][RegisteredFirst /\ LookupHits]_vars

\* the clone of the field Next found the record it is a field of recorded,
\* and the call went on to finish
C18_Witness ==
    \E p \in Procs :
        /\ Done(p) /\ entry[p].T = "*Node"
        /\ result[p] = ptrs[p][StructKey(heap, Place(heap, SrcOf(p).x[1]))]
        /\ NextOf(heap, result[p]) = result[p]

(* ----------------------------------------------------------------------- *)
(* C19  The lookup key is (pointer type, address): clonePtr returns a      *)
(* recorded clone without descending only when the table holds an entry of *)
(* the pointer's own type at the pointee's address; every entry leads to a *)
(* pointer of the type of its key; two entries at one address (a record    *)
(* and its first field, itself a record) lead to different clones; and     *)
(* *Node and *string pointers to one address come back as a *Node and a    *)
(* *string to different storage.                                           *)
(* ----------------------------------------------------------------------- *)
HitNeedsTypeAndAddress ==
    \A p \in Procs :
        LET v == cl[p].v IN
        Calling(p, "clonePtr") /\ ~IsNil(heap, v) /\ cl'[p].mode = "ret" =>
            \E k \in DOMAIN ptrs[p] :
                /\ k.t = v.t
                /\ k.a = UnsafeAddr(heap, Elem(heap, v).addr)
                /\ cl'[p].v.val = ptrs[p][k]

EntriesTyped ==
    \A p \in Procs :
        \A k1, k2 \in DOMAIN ptrs[p] :
            /\ ptrs[p][k1].t = k1.t
            /\ k1.a = k2.a /\ k1 # k2 => ptrs[p][k1].x # ptrs[p][k2].x

BothApart ==
    \A p \in Procs :
        Done(p) /\ entry[p].T = "Both" =>
            LET n == result[p].x[1]
                s == result[p].x[2]
            IN /\ n.t = "*Node" /\ s.t = "*string"
               /\ n.x # <<>> /\ s.x # <<>> /\ n.x[1].obj # s.x[1].obj
               /\ ReadAt(heap, s.x[1]) = Str("a")
               /\ ReadAt(heap, n.x[1]).t = "Node"

C19_KeyIsTypeAndAddress ==
    /\ [](EntriesTyped /\ BothApart)
    /\ [][HitNeedsTypeAndAddress]_vars

\* the finished clone of the pointer to a Wrap: the table holds the Wrap and
\* its first field Inner under one address and two types
C19_Witness ==
    \E p \in Procs :
        /\ Done(p) /\ entry[p].T = "*Wrap"
        /\ \E k1, k2 \in DOMAIN ptrs[p] :
              k1.a = k2.a /\ k1.t = "*Wrap" /\ k2.t = "*Node"

(* ----------------------------------------------------------------------- *)
(* C20  The declared type of a pointer is preserved: DeepClone of a        *)
(* non-nil pointer, whatever it points to (an int, a MyInt8, an any, a     *)
(* slice, a record, another pointer), does not panic and returns a pointer *)
(* of the same type to storage allocated by the call that holds a value of *)
(* the pointee type.                                                       *)
(* ----------------------------------------------------------------------- *)
PtrCall(p) ==
    /\ entry[p].fn = "DeepClone" /\ entry[p].src.x # <<>>
    /\ Kind(SrcOf(p).t) = "Ptr" /\ SrcOf(p).x # <<>>
    /\ entry[p].T = SrcOf(p).t

C20_PointerTypeKept ==
    \A p \in Procs :
        PtrCall(p) =>
            /\ cl[p].mode # "panic"
            /\ Done(p) =>
                  /\ result[p].t = SrcOf(p).t
                  /\ result[p].x # <<>>
                  /\ result[p].x[1].obj.own = p
                  /\ ReadAt(heap, result[p].x[1]).t = TypeInfo[SrcOf(p).t].elem

(* ----------------------------------------------------------------------- *)
(* What a deep clone holds, as a tree: the value with every reference      *)
(* replaced by what it leads to, a callable kept as it is, a channel nil   *)
(* and every unexported field at the zero value of its type.               *)
(* ----------------------------------------------------------------------- *)
RECURSIVE Expect(_, _, _)
Expect(h, v, d) ==
    IF d = 0 THEN <<"...">>
    ELSE IF v.t = "backing" THEN <<"arr", [i \in DOMAIN v.x |-> Expect(h, v.x[i], d)]>>
    ELSE IF v.t = "hmap" THEN <<"hmap", {<<Expect(h, e.k, d), Expect(h, e.v, d)>> : e \in v.x}>>
    ELSE LET k == Kind(v.t) IN
         CASE k \in ScalarKinds -> <<v.t, v.x>>
           [] k = "Struct" ->
                <<v.t, [i \in DOMAIN v.x |->
                          IF TypeInfo[v.t].fields[i].exp
                          THEN Expect(h, v.x[i], d)
                          ELSE Unfold(h, ZeroVal(TypeInfo[v.t].fields[i].t), d)]>>
           [] k = "Array" -> <<v.t, [i \in DOMAIN v.x |-> Expect(h, v.x[i], d)]>>
           [] v.x = <<>> -> <<v.t, <<"nil">>>>
           [] k = "Ptr" -> <<v.t, Expect(h, ReadAt(h, v.x[1]), d - 1)>>
           [] k = "Slice" -> <<v.t, Expect(h, h[v.x[1].obj], d - 1)>>
           [] k = "Map" -> <<v.t, Expect(h, h[v.x[1]], d - 1)>>
           [] k = "Interface" -> <<v.t, Expect(h, v.x[1], d)>>
           [] k = "Func" -> <<v.t, v.x>>
           [] OTHER -> <<v.t, <<"nil">>>>

(* ----------------------------------------------------------------------- *)
(* C21  Sequence rebuild: the clone of a non-nil slice has the length of   *)
(* the source and storage of its own, element i of it is the deep clone of *)
(* element i of the source, a slot whose element cloned to an invalid      *)
(* value (a nil any) holds the zero value of the element type and the      *)
(* elements after it keep their indices; a nil slice comes back as the nil *)
(* slice of the same type.                                                 *)
(* ----------------------------------------------------------------------- *)
SeqCall(p) ==
    /\ entry[p].fn \in {"DeepClone", "CloneSlice"} /\ entry[p].src.x # <<>>
    /\ Kind(SrcOf(p).t) = "Slice" /\ entry[p].T = SrcOf(p).t

ElemsOf(h, s) == SubSeq(h[s.x[1].obj].x, 1, s.x[1].len)

SeqRebuilt(h, src, c) ==
    IF src.x = <<>> THEN c = Nil(src.t)
    ELSE /\ c.t = src.t /\ c.x # <<>>
         /\ c.x[1].obj # src.x[1].obj
         /\ c.x[1].len = src.x[1].len
         /\ Len(h[c.x[1].obj].x) = src.x[1].len
         /\ \A i \in 1..src.x[1].len :
               LET e == ElemsOf(h, src)[i]
                   n == ElemsOf(h, c)[i]
               IN /\ Unfold(h, n, UnfoldDepth) = Expect(h, e, UnfoldDepth)
                  /\ Kind(e.t) = "Interface" /\ e.x = <<>> =>
                        n = ZeroVal(TypeInfo[src.t].elem)

C21_SequenceRebuild ==
    \A p \in Procs : SeqCall(p) /\ Done(p) => SeqRebuilt(heap, SrcOf(p), result[p])

\* the finished clone of []any{nil, 5, &x}: the slot of the nil element is
\* left at nil and 5 is still at index 1
C21_Witness ==
    \E p \in Procs :
        /\ SeqCall(p) /\ Done(p) /\ entry[p].T = "[]any"
        /\ result[p].x # <<>>
        /\ ElemsOf(heap, result[p])[1] = Nil("any")
        /\ ElemsOf(heap, result[p])[2] = Box(I(5))

(* ----------------------------------------------------------------------- *)
(* C22  Map rebuild: the clone of a non-nil map is a map of the same type  *)
(* in storage of its own with as many entries as the source and, for each  *)
(* source entry, the entry deep clone of the key -> deep clone of the      *)
(* value; a key whose value cloned to an invalid value (a nil any) is      *)
(* present with the zero value of the map's value type; a nil map comes    *)
(* back as the nil map of the same type.                                   *)
(* ----------------------------------------------------------------------- *)
MapCall(p) ==
    /\ entry[p].fn \in {"DeepClone", "CloneMap"} /\ entry[p].src.x # <<>>
    /\ Kind(SrcOf(p).t) = "Map" /\ entry[p].T = SrcOf(p).t

MapRebuilt(h, src, c) ==
    IF src.x = <<>> THEN c = Nil(src.t)
    ELSE /\ c.t = src.t /\ c.x # <<>> /\ c.x[1] # src.x[1]
         /\ Cardinality(h[c.x[1]].x) = Cardinality(h[src.x[1]].x)
         /\ \A e \in h[src.x[1]].x :
               \E n \in h[c.x[1]].x :
                  /\ n.k.t = TypeInfo[src.t].key /\ n.v.t = TypeInfo[src.t].elem
                  /\ Unfold(h, n.k, UnfoldDepth) = Expect(h, e.k, UnfoldDepth)
                  /\ Unfold(h, n.v, UnfoldDepth) = Expect(h, e.v, UnfoldDepth)
                  /\ Kind(e.v.t) = "Interface" /\ e.v.x = <<>> =>
                        n.v = ZeroVal(TypeInfo[src.t].elem)

C22_MapRebuild ==
    \A p \in Procs : MapCall(p) /\ Done(p) => MapRebuilt(heap, SrcOf(p), result[p])

\* the finished clone of map[string]any{"a": nil, "b": 5}: "a" is present
C22_Witness ==
    \E p \in Procs :
        /\ MapCall(p) /\ Done(p) /\ entry[p].T = "map[string]any"
        /\ result[p].x # <<>>
        /\ KV(Str("a"), Nil("any")) \in heap[result[p].x[1]].x
        /\ KV(Str("b"), Box(I(5))) \in heap[result[p].x[1]].x

(* ----------------------------------------------------------------------- *)
(* C23  Aggregate rebuild: in the clone of a record every exported field   *)
(* holds the deep clone of the source field, every unexported field holds  *)
(* the zero value of its type whatever the source field holds, and no      *)
(* storage the source reaches is reached from the clone.                   *)
(* ----------------------------------------------------------------------- *)
RecCall(p) ==
    /\ entry[p].fn \in {"DeepClone", "CloneStruct"} /\ entry[p].src.x # <<>>
    /\ entry[p].T = SrcOf(p).t
    /\ \/ Kind(SrcOf(p).t) = "Struct"
       \/ /\ Kind(SrcOf(p).t) = "Ptr" /\ SrcOf(p).x # <<>>
          /\ Kind(TypeInfo[SrcOf(p).t].elem) = "Struct"

\* the record a call was handed, and the record it returned
RecOf(h, v) == IF Kind(v.t) = "Ptr" THEN ReadAt(h, v.x[1]) ELSE v

RecRebuilt(h, src, c) ==
    /\ c.t = src.t
    /\ \A i \in DOMAIN src.x :
          LET f == TypeInfo[src.t].fields[i] IN
          IF f.exp
          THEN Unfold(h, c.x[i], UnfoldDepth) = Expect(h, src.x[i], UnfoldDepth)
          ELSE c.x[i] = ZeroVal(f.t)

C23_AggregateRebuild ==
    \A p \in Procs :
        RecCall(p) /\ Done(p) =>
            /\ RecRebuilt(heap, RecOf(heap, SrcOf(p)), RecOf(heap, result[p]))
            /\ Reach(heap, result[p]) \cap Reach(heap, SrcOf(p)) = {}

\* the finished clone of a Mixed whose unexported fields hold a pointer and a
\* slice: both are nil in the clone, the exported slice is cloned
C23_Witness ==
    \E p \in Procs :
        /\ RecCall(p) /\ Done(p) /\ RecOf(heap, SrcOf(p)).t = "Mixed"
        /\ RecOf(heap, SrcOf(p)).x[2] # Nil("*int")
        /\ RecOf(heap, result[p]).x[2] = Nil("*int")
        /\ RecOf(heap, result[p]).x[3] = Nil("[]int")
        /\ RecOf(heap, result[p]).x[1].x # <<>>

(* ----------------------------------------------------------------------- *)
(* C24  Callable pass-through: a callable handed to DeepClone comes back   *)
(* as the same reference, and so does a callable that is an element of a   *)
(* cloned slice, a value of a cloned map or an exported field of a cloned  *)
(* record (a nil callable stays nil); the step that clones a callable      *)
(* returns it at once, with no call made and nothing allocated or          *)
(* recorded.                                                               *)
(* ----------------------------------------------------------------------- *)
IsFunc(t) == Kind(t) = "Func"

FuncsKept(h, src, c) ==
    LET k == Kind(src.t) IN
    CASE k = "Func" -> c = src
      [] k = "Slice" /\ src.x # <<>> /\ IsFunc(TypeInfo[src.t].elem) ->
            c.x # <<>> /\ ElemsOf(h, c) = ElemsOf(h, src)
      [] k = "Map" /\ src.x # <<>> /\ IsFunc(TypeInfo[src.t].elem) ->
            c.x # <<>> /\ h[c.x[1]].x = h[src.x[1]].x
      [] k = "Struct" \/ (k = "Ptr" /\ src.x # <<>> /\ Kind(TypeInfo[src.t].elem) = "Struct") ->
            \A i \in DOMAIN RecOf(h, src).x :
                LET f == TypeInfo[RecOf(h, src).t].fields[i] IN
                f.exp /\ IsFunc(f.t) => RecOf(h, c).x[i] = RecOf(h, src).x[i]
      [] OTHER -> TRUE

FuncsPassed ==
    \A p \in Procs :
        Done(p) /\ entry[p].src.x # <<>> /\ entry[p].T = SrcOf(p).t =>
            FuncsKept(heap, SrcOf(p), result[p])

FuncNotEntered ==
    \A p \in Procs :
        Calling(p, "clone") /\ KindOf(cl[p].v) = "Func" /\ cl'[p] # cl[p] =>
            /\ cl'[p].mode = "ret" /\ cl'[p].v = cl[p].v
            /\ cl'[p].stack = cl[p].stack
            /\ heap' = heap /\ ptrs' = ptrs

SourceIntact ==
    \A o \in DOMAIN Fixtures[fx].heap :
        o \in DOMAIN heap /\ heap[o] = Fixtures[fx].heap[o]

WritesOwnOnly ==
    \A p \in Procs :
        cl'[p] # cl[p] =>
            /\ \A o \in DOMAIN heap : o.own # p => o \in DOMAIN heap' /\ heap'[o] = heap[o]
            /\ \A o \in DOMAIN heap' \ DOMAIN heap : o.own = p
            /\ \A q \in Procs \ {p} : ptrs'[q] = ptrs[q]
            /\ cl[p].mode # "idle" => entry'[p] = entry[p]

C25_SourceReadOnly == []SourceIntact /\ [][WritesOwnOnly]_vars

\* the clone of the record behind a pointer is finished: it wrote its table
\* and three objects of its own, and the source is as it was
C25_Witness ==
    \E p \in Procs :
        /\ Done(p) /\ entry[p].T = "*Mixed"
        /\ ptrs[p] # NewTable
        /\ \E o \in DOMAIN heap : o.own = p
        /\ heap[Src(3)] = MixedV /\ heap[Src(2)] = Backing(<<I(1), I(2)>>)

(* ----------------------------------------------------------------------- *)
(* C26  Iteration under the lock: in safe mode a goroutine inside          *)
(* IteratorDesc, from the read of len(s.data) to its last read of an       *)
(* element, holds the write lock of the array and no other goroutine is    *)
(* inside an array operation; the data does not change between two of its  *)
(* callbacks; and it never reads an index that is out of range.            *)
(* ----------------------------------------------------------------------- *)
Iterating(g) == gr[g].op = "IteratorDesc" /\ gr[g].pc \in {"len", "elem"}

IterLocked ==
    \A g \in Threads :
        /\ Iterating(g) =>
              /\ mu["array"].w
              /\ \A o \in Threads \ {g} :
                    gr[o].op \in ArrayOps => gr[o].pc \notin {"body", "write", "unlock", "len", "elem"}
        /\ gr[g].pc # "panic"

IterStable ==
    \A g \in Threads :
        Iterating(g) /\ gr'[g].op = "IteratorDesc" /\ gr'[g].pc \in {"elem", "done"} =>
            adata' = adata

C26_IterationUnderLock == [](safe => IterLocked) /\ [][safe => IterStable]_vars

(* ----------------------------------------------------------------------- *)
(* container/sarray, container/smap: iteration with a callback.  The      *)
(* goroutines of the lock model call IteratorAsc (Iterator is the same     *)
(* call) or Map.Iterator with a callback that returns true and may call a  *)
(* read operation of the container it is handed, or a writing operation.   *)
(* sync.RWMutex: Lock announces the writer, then waits for the readers;    *)
(* RLock waits while a writer holds the lock or has announced itself.      *)
(* ----------------------------------------------------------------------- *)

IterArrayOps == {"IteratorAsc", "Push"}
IterMapOps   == {"Iterator", "Set"}
Iterators    == {"IteratorAsc", "Iterator"}

\* what the callback f does before it returns true
Callbacks(op) ==
    IF op = "IteratorAsc" THEN {"none", "Get", "Size", "Search"}
    ELSE IF op = "Iterator" THEN {"none", "Get"}
    ELSE {"none"}

IterOf(op) == IF op \in IterArrayOps THEN "array" ELSE "map"

\* one array and one map, each holding one element
IterInit ==
    /\ safe \in BOOLEAN
    /\ mu = MuFree
    /\ adata = <<0>>
    /\ mdata = (TheKey :> 0)
    /\ gr = [g \in Threads |-> GrIdle]
    /\ hist = <<>>
    /\ got = <<>>

IterFrame == UNCHANGED <<safe, cloneVars, atomicVars, hist, got, arrayVars>>

\* a writer of container c has called sync.RWMutex.Lock and waits for the readers
Announced(c) == \E o \in Threads : gr[o].pc = "lockwait" /\ IterOf(gr[o].op) = c

\* len(s.data)
IterSize(c) == IF c = "array" THEN Len(adata) ELSE Cardinality(DOMAIN mdata)

IterCall(g) ==
    /\ gr[g].pc = "idle"
    /\ \E op \in IterArrayOps \cup IterMapOps : \E cb \in Callbacks(op) :
          gr' = [gr EXCEPT ![g] = [GrIdle EXCEPT !.op = op, !.tmp = <<cb>>,
                                   !.pc = IF op = "Iterator" THEN "rlock" ELSE "lock"]]
    /\ UNCHANGED <<mu, adata, mdata>> /\ IterFrame

\* r.Lock(): if r.safe { r.mu.Lock() }; sync.RWMutex.Lock takes the writers'
\* mutex and announces itself
IterLock(g) ==
    LET c == IterOf(gr[g].op) IN
    /\ gr[g].pc = "lock"
    /\ safe => ~mu[c].w /\ ~Announced(c)
    /\ gr' = Goto(g, IF safe THEN "lockwait" ELSE "body")
    /\ UNCHANGED <<mu, adata, mdata>> /\ IterFrame

\* sync.RWMutex.Lock goes on when the last reader has left
IterLockAcquire(g) ==
    LET c == IterOf(gr[g].op) IN
    /\ gr[g].pc = "lockwait"
    /\ mu[c].r = 0
    /\ mu' = [mu EXCEPT ![c].w = TRUE]
    /\ gr' = Goto(g, "body")
    /\ UNCHANGED <<adata, mdata>> /\ IterFrame

\* r.RLock(): if r.safe { r.mu.RLock() }, of the iterator or of the read
\* operation its callback calls
IterRLock(g) ==
    LET c == IterOf(gr[g].op) IN
    /\ gr[g].pc \in {"rlock", "cbrlock"}
    /\ safe => ~mu[c].w /\ ~Announced(c)
    /\ mu' = IF safe THEN [mu EXCEPT ![c].r = @ + 1] ELSE mu
    /\ gr' = Goto(g, IF gr[g].pc = "rlock" THEN "body" ELSE "cbbody")
    /\ UNCHANGED <<adata, mdata>> /\ IterFrame

\* for k, v := range s.data { if !f(k, v) { return } }, f returning true
IterLoop(g) ==
    LET c == IterOf(gr[g].op) IN
    /\ gr[g].op \in Iterators
    /\ gr[g].pc = "body"
    /\ gr' = IF gr[g].i >= IterSize(c)
             THEN Goto(g, IF gr[g].op = "Iterator" THEN "runlock" ELSE "unlock")
             ELSE IF gr[g].tmp = <<"none">>
             THEN [gr EXCEPT ![g].i = @ + 1]
             ELSE Goto(g, "cbrlock")
    /\ UNCHANGED <<mu, adata, mdata>> /\ IterFrame

\* the body of Get, Size or Search called by the callback
CallbackBody(g) ==
    LET c == IterOf(gr[g].op) IN
    /\ gr[g].pc = "cbbody"
    /\ gr' = [gr EXCEPT ![g].ret = Append(@, IterSize(c)), ![g].pc = "cbrunlock"]
    /\ UNCHANGED <<mu, adata, mdata>> /\ IterFrame

\* r.RUnlock(): deferred by the read operation and by Map.Iterator
IterRUnlock(g) ==
    LET c == IterOf(gr[g].op) IN
    /\ gr[g].pc \in {"runlock", "cbrunlock"}
    /\ mu' = IF safe THEN [mu EXCEPT ![c].r = @ - 1] ELSE mu
    /\ gr' = IF gr[g].pc = "runlock" THEN Goto(g, "done")
             ELSE [gr EXCEPT ![g].i = @ + 1, ![g].pc = "body"]
    /\ UNCHANGED <<adata, mdata>> /\ IterFrame

\* r.Unlock(): deferred by IteratorAsc, called by Push and Set
IterUnlock(g) ==
    LET c == IterOf(gr[g].op) IN
    /\ gr[g].pc = "unlock"
    /\ mu' = IF safe THEN [mu EXCEPT ![c].w = FALSE] ELSE mu
    /\ gr' = Goto(g, "done")
    /\ UNCHANGED <<adata, mdata>> /\ IterFrame

\* s.data = append(s.data, item) / s.data[key] = value
IterWrite(g) ==
    /\ gr[g].op \in {"Push", "Set"}
    /\ gr[g].pc = "body"
    /\ IF gr[g].op = "Push"
       THEN adata' = Append(adata, g) /\ mdata' = mdata
       ELSE adata' = adata /\ mdata' = [mdata EXCEPT ![TheKey] = g]
    /\ gr' = Goto(g, "unlock")
    /\ UNCHANGED mu /\ IterFrame

\* the steps of goroutine g once it has called its operation
IterStep(g) ==
    \/ IterLock(g) \/ IterLockAcquire(g) \/ IterRLock(g) \/ IterLoop(g)
    \/ CallbackBody(g) \/ IterRUnlock(g) \/ IterUnlock(g) \/ IterWrite(g)

IterNext == \E g \in Threads : IterCall(g) \/ IterStep(g)

IterStart == CloneInit /\ fx = 1 /\ AtomicInit /\ IterInit /\ ArrayIdle

\* the Go scheduler runs every goroutine that can run
IterSpec == IterStart /\ [][IterNext]_vars /\ \A g \in Threads : WF_vars(IterStep(g))

\* C27: read-only iteration does not block itself.  On a container made with
\* safe = true every call of Array.Iterator / IteratorAsc and of Map.Iterator
\* returns in the end, whatever the callback does before it returns: nothing,
\* or a read operation (Get, Size, Search) of the same container.
C27_IterationReturns ==
    \A g \in Threads :
        (safe /\ gr[g].op \in Iterators) ~> (gr[g].pc = "done")

(* ----------------------------------------------------------------------- *)
(* C28  Never-stored atomic cell: on a Value on which Store has never been *)
(* called, Load/Get, Swap and IsEmpty return normally - none of them       *)
(* aborts; and once a value is stored, Load/Get returns the value last     *)
(* written, which only Store, Swap and a successful CompareAndSwap change. *)
(* ----------------------------------------------------------------------- *)
NeverStored == cell = <<>>

NoAbort == \A t \in Threads : th[t].pc # "panic"

\* a call that returns a value read from the cell returns its content
ReadsContent ==
    \A t \in Threads :
        th[t].pc = "idle" /\ th'[t].pc \in {"got", "swapLoaded"} =>
            cell # <<>> /\ th'[t].old = cell[1]

\* the content changes only in a step of Store, Swap or a successful CompareAndSwap
WrittenByStores ==
    cell' # cell =>
        \E t \in Threads : \/ th[t].pc = "swapLoaded" /\ th'[t].pc = "idle"
                           \/ th'[t].pc = "swapped"
                           \/ th' = th /\ stored' # stored

C28_NeverStoredCell == []NoAbort /\ [][ReadsContent /\ WrittenByStores]_vars

(* ----------------------------------------------------------------------- *)
(* C29  Out-of-range indices never abort: on an Array of size n a call of  *)
(* Get, Set, Remove or Insert with index < 0 or index >= n returns,        *)
(* reports the failure (ok = false or an error), leaves the contents of    *)
(* the array as they were and, in safe mode, leaves the lock released.     *)
(* ----------------------------------------------------------------------- *)
Outside(index) == index < 0 \/ index >= arrs[1].h.len

\* the step is a call of one of the four operations with the index
IndexedCall(index) ==
    \/ ArrayGet(1, index)
    \/ \E v \in AVals : ArraySet(1, index, v)
    \/ ArrayRemove(1, index)
    \/ \E es \in IElems : ArrayInsert(1, index, es)

OutsideFails ==
    \A index \in IIdx :
        Outside(index) /\ IndexedCall(index) =>
            /\ ~alog'.panic
            /\ ~alog'.ok
            /\ ContentsOf(store', arrs', 1) = ContentsOf(store, arrs, 1)
            /\ arrs[1].safe => ~alog'.held

C29_OutOfRangeNeverAborts == [][OutsideFails]_vars

(* ----------------------------------------------------------------------- *)
(* C30  Array.Insert: with 0 <= index < Size, Insert(index, e1..ek)        *)
(* returns nil and the array becomes data[0..index) ++ [e1..ek] ++         *)
(* data[index..Size): Size grows by k and the element formerly at index is *)
(* at index + k.  With index < 0 or index >= Size (so also index = Size,   *)
(* and any index on an empty array) it returns an error and the array is   *)
(* as it was.                                                              *)
(* ----------------------------------------------------------------------- *)
Inserted(xs, index, es) ==
    SubSeq(xs, 1, index) \o es \o SubSeq(xs, index + 1, Len(xs))

InsertDone ==
    \A index \in IIdx, es \in IElems :
        alog'.op = "Insert" /\ ArrayInsert(1, index, es) =>
            LET xs == ContentsOf(store, arrs, 1)
                ys == ContentsOf(store', arrs', 1)
            IN IF 0 <= index /\ index < Len(xs)
               THEN /\ alog'.ok /\ ~alog'.panic
                    /\ ys = Inserted(xs, index, es)
                    /\ Len(ys) = Len(xs) + Len(es)
                    /\ ys[index + Len(es) + 1] = xs[index + 1]
               ELSE /\ ~alog'.ok /\ ~alog'.panic
                    /\ ys = xs

C30_Insert == [][InsertDone]_vars

\* two elements were inserted before the last of at least two
C30_Witness ==
    /\ alog.op = "Insert" /\ alog.ok
    /\ \E xs \in {ContentsOf(store, arrs, 1)} :
          /\ Len(xs) >= 4
          /\ \E i \in 1..(Len(xs) - 2) : i > 1 /\ SubSeq(xs, i, i + 1) = <<2, 1>>

(* ----------------------------------------------------------------------- *)
(* C31  Array.Remove / RemoveValue: Remove(i) with 0 <= i < Size returns   *)
(* (data[i], true) and the array becomes data without position i, the      *)
(* other elements in their order and Size one less, for the first, the     *)
(* last and an inner position alike.  RemoveValue(x) removes the first     *)
(* element equal to x only and returns its former index and true; when no  *)
(* element equals x it returns (-1, false) and changes nothing.            *)
(* ----------------------------------------------------------------------- *)
\* xs without its element at the 0-based position index
Without(xs, index) == SubSeq(xs, 1, index) \o SubSeq(xs, index + 2, Len(xs))

RemoveDone ==
    \A index \in IIdx :
        alog'.op = "Remove" /\ ArrayRemove(1, index) =>
            LET xs == ContentsOf(store, arrs, 1)
                ys == ContentsOf(store', arrs', 1)
            IN 0 <= index /\ index < Len(xs) =>
                  /\ alog'.ok /\ ~alog'.panic
                  /\ alog'.ret = <<xs[index + 1]>>
                  /\ ys = Without(xs, index)
                  /\ Len(ys) = Len(xs) - 1

RemoveValueDone ==
    \A value \in AVals :
        alog'.op = "RemoveValue" /\ ArrayRemoveValue(1, value) =>
            LET xs   == ContentsOf(store, arrs, 1)
                ys   == ContentsOf(store', arrs', 1)
                hits == {i \in DOMAIN xs : xs[i] = value}
            IN IF hits = {}
               THEN /\ ~alog'.ok /\ ~alog'.panic
                    /\ alog'.ret = <<-1>>
                    /\ ys = xs
               ELSE \E first \in hits :
                       /\ \A i \in hits : first <= i
                       /\ alog'.ok /\ ~alog'.panic
                       /\ alog'.ret = <<first - 1>>
                       /\ ys = Without(xs, first - 1)

C31_Remove == [][RemoveDone /\ RemoveValueDone]_vars

\* Remove has taken a 2 from between two 1s: the cell behind the array still
\* holds the 1 that moved one place down
C31_Witness ==
    /\ alog.op = "Remove" /\ alog.ok /\ alog.ret = <<2>>
    /\ ContentsOf(store, arrs, 1) = <<1, 1>>
    /\ \E h \in {arrs[1].h} :
          /\ h.cap > h.len
          /\ store[h.ptr][h.off + h.len + 1] = 1

====
